---- MODULE Spec2Model ----
(***************************************************************************)
(* Model of nix/packages/github-matrix/github_matrix.py: one run of main() *)
(* over the captured output of nix-eval-jobs.  Strings the program slices, *)
(* splits, strips or rewrites are sequences of one-character strings;      *)
(* strings it only compares (drvPath, name, feature names) are atoms.      *)
(* A second part models scripts/package-go.py: one run of its main(), with *)
(* the working directory's .package-config.json as part of the state.      *)
(***************************************************************************)
EXTENDS Integers, Sequences, FiniteSets, TLC

VARIABLES
    stdout_data,          \* captured standard output, a sequence of lines
    stderr_data,          \* captured diagnostic channel, a sequence of lines
    returncode,           \* exit code of the evaluator subprocess
    pc,                   \* position of the run inside main()
    i,                    \* index of the next line of the stream being read
    line,                 \* the stdout line handed to parse_nix_eval_line last
    result,               \* what parse_nix_eval_line returned for it
    packages,             \* accepted units, in stream order
    drv_paths,            \* the seen set shared by all parse calls
    errors_list,          \* collected NixEvalError values
    warnings_list,        \* collected warning strings
    gh_action_packages,   \* output of sort_pkgs_by_closures
    packages_by_system,   \* defaultdict(list) of the packages group
    checks_by_system,     \* defaultdict(list) of the checks group
    packages_output,      \* gh_output["packages"]
    checks_output,        \* gh_output["checks"]
    sink,                 \* calls made to the CI annotation sink, in order
    exception,            \* the uncaught exception that ended the run, or "none"
    exit_status,          \* process exit status, -1 while running
    argv,                 \* sys.argv of a run of package-go.py
    go_pc,                \* position of that run inside its main()
    config_file,          \* content of .package-config.json, None if absent
    existing,             \* what load_existing_config() returned
    answers,              \* main()'s name, description, owner, repo, ref
    sha256,               \* what prefetch_source returned
    config,               \* the config dict of main(), None before line 203
    vendor_hash,          \* what compute_vendor_hash returned
    go_exit_status        \* exit status of package-go.py, -1 while running

vars == <<stdout_data, stderr_data, returncode, pc, i, line, result, packages,
          drv_paths, errors_list, warnings_list, gh_action_packages,
          packages_by_system, checks_by_system, packages_output,
          checks_output, sink, exception, exit_status,
          argv, go_pc, config_file, existing, answers, sha256, config,
          vendor_hash, go_exit_status>>

matrix_vars == <<stdout_data, stderr_data, returncode, pc, i, line, result,
                 packages, drv_paths, errors_list, warnings_list,
                 gh_action_packages, packages_by_system, checks_by_system,
                 packages_output, checks_output, sink, exception,
                 exit_status>>

package_go_vars == <<argv, go_pc, config_file, existing, answers, sha256,
                     config, vendor_hash, go_exit_status>>

----------------------------------------------------------------------------
(* Bounds *)

MaxLines == 3
MaxStderrLines == 3

----------------------------------------------------------------------------
(* Character-sequence strings and the str methods the program uses *)

Whitespace == {" ", "\n", "\t"}

NL == <<"\n">>

RECURSIVE LStrip(_)
LStrip(s) ==
    IF s # <<>> /\ Head(s) \in Whitespace THEN LStrip(Tail(s)) ELSE s

RECURSIVE RStrip(_)
RStrip(s) ==
    IF s # <<>> /\ s[Len(s)] \in Whitespace
    THEN RStrip(SubSeq(s, 1, Len(s) - 1))
    ELSE s

\* str.strip()
Strip(s) == RStrip(LStrip(s))

\* str.startswith(prefix)
StartsWith(s, prefix) ==
    /\ Len(s) >= Len(prefix)
    /\ SubSeq(s, 1, Len(prefix)) = prefix

\* s[n:]
SliceFrom(s, n) == SubSeq(s, n + 1, Len(s))

\* str.split(sep) for a one-character separator: always at least one part
RECURSIVE SplitAcc(_, _, _)
SplitAcc(s, sep, cur) ==
    IF s = <<>> THEN <<cur>>
    ELSE IF Head(s) = sep THEN <<cur>> \o SplitAcc(Tail(s), sep, <<>>)
    ELSE SplitAcc(Tail(s), sep, Append(cur, Head(s)))

Split(s, sep) == SplitAcc(s, sep, <<>>)

\* sep.join(parts)
RECURSIVE Join(_, _)
Join(sep, parts) ==
    IF parts = <<>> THEN <<>>
    ELSE IF Len(parts) = 1 THEN parts[1]
    ELSE parts[1] \o sep \o Join(sep, Tail(parts))

\* str.replace(old, new) for a one-character old
RECURSIVE Replace(_, _, _)
Replace(s, old, new) ==
    IF s = <<>> THEN <<>>
    ELSE IF Len(s) = 1 THEN (IF s[1] = old THEN new ELSE s)
    ELSE LET half == Len(s) \div 2
         IN  Replace(SubSeq(s, 1, half), old, new)
                 \o Replace(SubSeq(s, half + 1, Len(s)), old, new)

\* str(n) for a non-negative integer
Digit(d) == <<"0", "1", "2", "3", "4", "5", "6", "7", "8", "9">>[d + 1]

RECURSIVE Str(_)
Str(n) == IF n < 10 THEN <<Digit(n)>> ELSE Str(n \div 10) \o <<Digit(n % 10)>>

\* seq[-k], defined only when Len(seq) >= k
FromEnd(seq, k) == seq[Len(seq) - k + 1]

----------------------------------------------------------------------------
(* String literals of the program *)

CHECKS_DOT == <<"c", "h", "e", "c", "k", "s", ".">>
PACKAGES_DOT == <<"p", "a", "c", "k", "a", "g", "e", "s", ".">>
EXTS == <<"e", "x", "t", "s">>
ERROR_COLON == <<"e", "r", "r", "o", "r", ":">>
WARNING_COLON == <<"w", "a", "r", "n", "i", "n", "g", ":">>
EVALUATION_WARNING_COLON ==
    <<"e", "v", "a", "l", "u", "a", "t", "i", "o", "n", " ">> \o WARNING_COLON

X86_64_LINUX == <<"x", "8", "6", "_", "6", "4", "-", "l", "i", "n", "u", "x">>
AARCH64_LINUX ==
    <<"a", "a", "r", "c", "h", "6", "4", "-", "l", "i", "n", "u", "x">>
AARCH64_DARWIN ==
    <<"a", "a", "r", "c", "h", "6", "4", "-", "d", "a", "r", "w", "i", "n">>

\* get_args(System), in declaration order
System == <<X86_64_LINUX, AARCH64_LINUX, AARCH64_DARWIN>>

BUILD_RUNNER_MAP_swapped ==
    (X86_64_LINUX :> [labels |-> <<"blacksmith-8vcpu-ubuntu-2404-arm">>])
    @@ (AARCH64_LINUX :> [labels |-> <<"blacksmith-8vcpu-ubuntu-2404">>])
    @@ (AARCH64_DARWIN :> [labels |-> <<"macos-latest">>])

BUILD_RUNNER_MAP ==
    (X86_64_LINUX :> [labels |-> <<"blacksmith-8vcpu-ubuntu-2404">>])
    @@ (AARCH64_LINUX :> [labels |-> <<"blacksmith-8vcpu-ubuntu-2404-arm">>])
    @@ (AARCH64_DARWIN :> [labels |-> <<"macos-latest">>])

----------------------------------------------------------------------------
(* Lines of the evaluator's standard output.  A line is blank, is not      *)
(* decodable as JSON, or decodes to a record; a record either carries an   *)
(* "error" key or describes a unit.  Absent optional keys are the defaults *)
(* data.get(key, []) supplies.                                             *)

BlankLine ==
    [kind |-> "blank", has_error |-> FALSE, attr |-> <<>>, error |-> <<>>,
     drvPath |-> "", name |-> "", system |-> <<>>, cacheStatus |-> "",
     neededBuilds |-> {}, neededSubstitutes |-> {},
     requiredSystemFeatures |-> {}]

InvalidLine == [BlankLine EXCEPT !.kind = "invalid"]

ErrorRecord(attr, msg) ==
    [BlankLine EXCEPT !.kind = "json", !.has_error = TRUE, !.attr = attr,
                      !.error = msg]

UnitRecord(drv, name, attr, sys, cache, builds, subs, feats) ==
    [kind |-> "json", has_error |-> FALSE, attr |-> attr, error |-> <<>>,
     drvPath |-> drv, name |-> name, system |-> sys, cacheStatus |-> cache,
     neededBuilds |-> builds, neededSubstitutes |-> subs,
     requiredSystemFeatures |-> feats]

----------------------------------------------------------------------------
(* parse_nix_eval_line *)

None == <<>>
Some(v) == <<v>>
Ok(v) == [tag |-> "Ok", value |-> v]
Err(e) == [tag |-> "Err", value |-> Some(e)]

RECURSIVE core_error_idx_first(_, _)
core_error_idx_first(error_lines, k) ==
    IF k = 0 THEN 0
    ELSE LET before == core_error_idx_first(error_lines, k - 1)
         IN  IF before # 0 THEN before
             ELSE IF StartsWith(Strip(error_lines[k]), ERROR_COLON) THEN k
             ELSE 0

\* index of the last line that, stripped, starts with "error:"; 0 when none
\* (the loop of lines 123-127, with 1-based indices)
RECURSIVE core_error_idx(_, _)
core_error_idx(error_lines, k) ==
    IF k = 0 THEN 0
    ELSE IF StartsWith(Strip(error_lines[k]), ERROR_COLON) THEN k
    ELSE core_error_idx(error_lines, k - 1)

Min(a, b) == IF a <= b THEN a ELSE b

\* the message stored in the NixEvalError (lines 119-135)
error_msg(raw) ==
    LET error_lines == Split(raw, "\n")
        idx == core_error_idx(error_lines, Len(error_lines))
    IN  IF idx >= 1
        THEN Strip(Join(NL, SubSeq(error_lines, idx,
                                   Min(idx + 3, Len(error_lines)))))
        ELSE raw

excluded_on_any_platform(data) ==
    "nixos-test" \in data.requiredSystemFeatures

\* the condition of lines 140-143
excluded(data) ==
    /\ "nixos-test" \in data.requiredSystemFeatures
    /\ data.system = X86_64_LINUX

parse_nix_eval_line_no_seen_check(ln, seen) ==
    IF ln.kind = "blank"
    THEN [result |-> Ok(None), drv_paths |-> seen, warned |-> FALSE]
    ELSE IF ln.kind = "invalid"
    THEN [result |-> Ok(None), drv_paths |-> seen, warned |-> TRUE]
    ELSE IF ln.has_error
    THEN [result |-> Err([attr |-> ln.attr, error |-> error_msg(ln.error)]),
          drv_paths |-> seen, warned |-> FALSE]
    ELSE IF excluded(ln)
    THEN [result |-> Ok(None), drv_paths |-> seen, warned |-> FALSE]
    ELSE [result |-> Ok(Some(ln)), drv_paths |-> seen \cup {ln.drvPath},
          warned |-> FALSE]

\* Returns the Result, the seen set after the call, and whether the JSON
\* parse warning was sent to the sink.
parse_nix_eval_line(ln, seen) ==
    IF ln.kind = "blank"
    THEN [result |-> Ok(None), drv_paths |-> seen, warned |-> FALSE]
    ELSE IF ln.kind = "invalid"
    THEN [result |-> Ok(None), drv_paths |-> seen, warned |-> TRUE]
    ELSE IF ln.has_error
    THEN [result |-> Err([attr |-> ln.attr, error |-> error_msg(ln.error)]),
          drv_paths |-> seen, warned |-> FALSE]
    ELSE IF ln.drvPath \in seen
    THEN [result |-> Ok(None), drv_paths |-> seen, warned |-> FALSE]
    ELSE IF excluded(ln)
    THEN [result |-> Ok(None), drv_paths |-> seen, warned |-> FALSE]
    ELSE [result |-> Ok(Some(ln)), drv_paths |-> seen \cup {ln.drvPath},
          warned |-> FALSE]

----------------------------------------------------------------------------
(* The annotation sink: one entry per call of warning, error, notice or    *)
(* set_output.  For set_output the title field holds the output's name.    *)

SinkCall(fn, title, msg) == [fn |-> fn, title |-> title, msg |-> msg]

----------------------------------------------------------------------------
(* run_nix_eval_jobs *)

ParseLine_stops_at_error ==
    /\ pc = "stdout"
    /\ i <= Len(stdout_data)
    /\ LET r == parse_nix_eval_line(stdout_data[i], drv_paths)
       IN  /\ line' = stdout_data[i]
           /\ result' = r.result
           /\ drv_paths' = r.drv_paths
           /\ sink' = IF r.warned
                      THEN Append(sink, SinkCall("warning",
                               "JSON Parse Warning",
                               <<"Skipping invalid JSON line: ", stdout_data[i]>>))
                      ELSE sink
           /\ errors_list' = IF r.result.tag = "Err"
                             THEN Append(errors_list, r.result.value[1])
                             ELSE errors_list
           /\ packages' = IF r.result.tag = "Ok" /\ r.result.value # None
                          THEN Append(packages, r.result.value[1])
                          ELSE packages
           /\ i' = IF r.result.tag = "Err" THEN Len(stdout_data) + 1
                   ELSE i + 1
    /\ UNCHANGED <<stdout_data, stderr_data, returncode, pc, warnings_list,
                   gh_action_packages, packages_by_system, checks_by_system,
                   packages_output, checks_output, exception, exit_status>>
    /\ UNCHANGED package_go_vars

\* one iteration of the loop of lines 175-180
ParseLine ==
    /\ pc = "stdout"
    /\ i <= Len(stdout_data)
    /\ LET r == parse_nix_eval_line(stdout_data[i], drv_paths)
       IN  /\ line' = stdout_data[i]
           /\ result' = r.result
           /\ drv_paths' = r.drv_paths
           /\ sink' = IF r.warned
                      THEN Append(sink, SinkCall("warning",
                               "JSON Parse Warning",
                               <<"Skipping invalid JSON line: ", stdout_data[i]>>))
                      ELSE sink
           /\ errors_list' = IF r.result.tag = "Err"
                             THEN Append(errors_list, r.result.value[1])
                             ELSE errors_list
           /\ packages' = IF r.result.tag = "Ok" /\ r.result.value # None
                          THEN Append(packages, r.result.value[1])
                          ELSE packages
    /\ i' = i + 1
    /\ UNCHANGED <<stdout_data, stderr_data, returncode, pc, warnings_list,
                   gh_action_packages, packages_by_system, checks_by_system,
                   packages_output, checks_output, exception, exit_status>>
    /\ UNCHANGED package_go_vars

\* the loop of lines 175-180 ends
EndStdout ==
    /\ pc = "stdout"
    /\ i > Len(stdout_data)
    /\ pc' = "stderr"
    /\ i' = 1
    /\ UNCHANGED <<stdout_data, stderr_data, returncode, line, result,
                   packages, drv_paths, errors_list, warnings_list,
                   gh_action_packages, packages_by_system, checks_by_system,
                   packages_output, checks_output, sink, exception,
                   exit_status>>
    /\ UNCHANGED package_go_vars

\* one iteration of the loop of lines 184-188
ParseStderrLine ==
    /\ pc = "stderr"
    /\ i <= Len(stderr_data)
    /\ LET stripped == Strip(stderr_data[i])
       IN  warnings_list' =
               IF \/ StartsWith(stripped, WARNING_COLON)
                  \/ StartsWith(stripped, EVALUATION_WARNING_COLON)
               THEN Append(warnings_list, Strip(SliceFrom(stripped, 8)))
               ELSE warnings_list
    /\ i' = i + 1
    /\ UNCHANGED <<stdout_data, stderr_data, returncode, pc, line, result,
                   packages, drv_paths, errors_list, gh_action_packages,
                   packages_by_system, checks_by_system, packages_output,
                   checks_output, sink, exception, exit_status>>
    /\ UNCHANGED package_go_vars

ReturnFromEval_exits_on_failure ==
    /\ pc = "stderr"
    /\ i > Len(stderr_data)
    /\ sink' = IF returncode # 0
               THEN Append(sink, SinkCall("error", "Process Failure",
                        "nix-eval-jobs process failed with non-zero exit code"))
               ELSE sink
    /\ pc' = IF returncode # 0 THEN "done" ELSE "sort"
    /\ exit_status' = IF returncode # 0 THEN 1 ELSE exit_status
    /\ UNCHANGED <<stdout_data, stderr_data, returncode, i, line, result,
                   packages, drv_paths, errors_list, warnings_list,
                   gh_action_packages, packages_by_system, checks_by_system,
                   packages_output, checks_output, exception>>
    /\ UNCHANGED package_go_vars

\* lines 190-196: the return code check and the return to main
ReturnFromEval ==
    /\ pc = "stderr"
    /\ i > Len(stderr_data)
    /\ sink' = IF returncode # 0
               THEN Append(sink, SinkCall("error", "Process Failure",
                        "nix-eval-jobs process failed with non-zero exit code"))
               ELSE sink
    /\ pc' = "sort"
    /\ UNCHANGED <<stdout_data, stderr_data, returncode, i, line, result,
                   packages, drv_paths, errors_list, warnings_list,
                   gh_action_packages, packages_by_system, checks_by_system,
                   packages_output, checks_output, exception, exit_status>>
    /\ UNCHANGED package_go_vars

----------------------------------------------------------------------------
(* graphlib.TopologicalSorter, as sort_pkgs_by_closures drives it          *)
(* (lines 219-224): the constructor's add() calls, prepare() with its      *)
(* cycle search, and the get_ready()/done() rounds of static_order().      *)

\* every order in which iterating the set S can deliver its elements
Orderings(S) ==
    {f \in [1..Cardinality(S) -> S] : \A a, b \in 1..Cardinality(S) :
                                          f[a] = f[b] => a = b}

AppendNew(seq, x) ==
    IF \E k \in 1..Len(seq) : seq[k] = x THEN seq ELSE Append(seq, x)

\* the loop over predecessors inside add(node, *predecessors)
RECURSIVE AddPreds(_, _, _)
AddPreds(g, node, preds) ==
    IF preds = <<>> THEN g
    ELSE AddPreds([g EXCEPT !.nodes = AppendNew(@, Head(preds)),
                            !.succ[Head(preds)] = Append(@, node)],
                  node, Tail(preds))

\* TopologicalSorter.add
Add_only_predecessors(g, node, preds) ==
    AddPreds([g EXCEPT !.npred[node] = @ + Len(preds)], node, preds)

Add(g, node, preds) ==
    AddPreds([g EXCEPT !.nodes = AppendNew(@, node),
                       !.npred[node] = @ + Len(preds)],
             node, preds)

\* TopologicalSorter.__init__(graph): keys in dict order, each value
\* iterated in the order iter_orders gives for it
RECURSIVE BuildGraph(_, _, _, _)
BuildGraph(g, keys, iter_orders, k) ==
    IF k > Len(keys) THEN g
    ELSE BuildGraph(Add(g, keys[k], iter_orders[k]), keys, iter_orders, k + 1)

\* TopologicalSorter._find_cycle: depth-first search along successors;
\* a node met again while it is still on the stack closes a cycle
RECURSIVE Visit(_, _, _, _)
RECURSIVE VisitSuccs(_, _, _, _)
Visit(g, node, stack, seen) ==
    IF node \in seen
    THEN [found |-> node \in stack, seen |-> seen]
    ELSE VisitSuccs(g, g.succ[node], stack \cup {node}, seen \cup {node})

VisitSuccs(g, succs, stack, seen) ==
    IF succs = <<>> THEN [found |-> FALSE, seen |-> seen]
    ELSE LET r == Visit(g, Head(succs), stack, seen)
         IN  IF r.found THEN r
             ELSE VisitSuccs(g, Tail(succs), stack, r.seen)

RECURSIVE FindCycleFrom(_, _, _)
FindCycleFrom(g, k, seen) ==
    IF k > Len(g.nodes) THEN FALSE
    ELSE IF g.nodes[k] \in seen THEN FindCycleFrom(g, k + 1, seen)
    ELSE LET r == Visit(g, g.nodes[k], {}, seen)
         IN  r.found \/ FindCycleFrom(g, k + 1, r.seen)

find_cycle_skipped(g) == FALSE

find_cycle(g) == FindCycleFrom(g, 1, {})

\* done(node): each successor loses one pending predecessor and becomes
\* ready when none is left
RECURSIVE DoneSuccs(_, _)
DoneSuccs(st, succs) ==
    IF succs = <<>> THEN st
    ELSE LET n == Head(succs)
             left == st.npred[n] - 1
         IN  DoneSuccs([npred |-> [st.npred EXCEPT ![n] = left],
                        ready |-> IF left = 0 THEN Append(st.ready, n)
                                  ELSE st.ready],
                       Tail(succs))

\* done(*node_group)
RECURSIVE Done(_, _, _)
Done(g, st, group) ==
    IF group = <<>> THEN st
    ELSE Done(g, DoneSuccs(st, g.succ[Head(group)]), Tail(group))

\* the while loop of static_order(): yield the ready nodes, mark them done
RECURSIVE StaticOrderLoop(_, _, _)
StaticOrderLoop(g, st, out) ==
    IF st.ready = <<>> THEN out
    ELSE StaticOrderLoop(g, Done(g, [npred |-> st.npred, ready |-> <<>>],
                                 st.ready),
                         out \o st.ready)

\* prepare() then the loop; [cycle |-> TRUE] stands for CycleError
static_order(g) ==
    LET ready == SelectSeq(g.nodes, LAMBDA n : g.npred[n] = 0)
    IN  IF find_cycle(g)
        THEN [cycle |-> TRUE, order |-> <<>>]
        ELSE [cycle |-> FALSE,
              order |-> StaticOrderLoop(g, [npred |-> g.npred,
                                            ready |-> ready], <<>>)]

----------------------------------------------------------------------------
(* sort_pkgs_by_closures *)

\* job_set (line 210)
job_set(jobs) == {jobs[k].drvPath : k \in 1..Len(jobs)}

closure_keeps_self(job, jobs) ==
    (job.neededSubstitutes \cup job.neededBuilds) \cap job_set(jobs)

\* one value of job_closures (lines 212-215)
closure(job, jobs) ==
    ((job.neededSubstitutes \cup job.neededBuilds) \cap job_set(jobs))
        \ {job.drvPath}

\* the keys of a dict built from jobs, in insertion order
RECURSIVE dict_keys(_)
dict_keys(jobs) ==
    IF jobs = <<>> THEN <<>>
    ELSE LET rest == dict_keys(SubSeq(jobs, 1, Len(jobs) - 1))
         IN  AppendNew(rest, jobs[Len(jobs)].drvPath)

\* the value a dict built from jobs holds for a key: the last job wins
last_job(jobs, drv) ==
    jobs[CHOOSE k \in 1..Len(jobs) :
            /\ jobs[k].drvPath = drv
            /\ \A m \in (k + 1)..Len(jobs) : jobs[m].drvPath # drv]

\* job_closures (lines 211-217)
job_closures(jobs) ==
    [d \in job_set(jobs) |-> closure(last_job(jobs, d), jobs)]

\* every way the sets of job_closures can be iterated, aligned with keys
RECURSIVE IterOrders(_, _)
IterOrders(keys, closures) ==
    IF keys = <<>> THEN {<<>>}
    ELSE {<<o>> \o rest : o \in Orderings(closures[Head(keys)]),
                          rest \in IterOrders(Tail(keys), closures)}

EmptyGraph(nodes) ==
    [nodes |-> <<>>, npred |-> [n \in nodes |-> 0],
     succ |-> [n \in nodes |-> <<>>]]

\* the whole function, for one choice of set iteration orders
sort_pkgs_by_closures(jobs, iter_orders) ==
    LET g == BuildGraph(EmptyGraph(job_set(jobs)), dict_keys(jobs),
                        iter_orders, 1)
        so == static_order(g)
    IN  [cycle |-> so.cycle,
         sorted_jobs |->
             [k \in 1..Len(so.order) |-> last_job(jobs, so.order[k])]]

\* line 250 of main; an uncaught CycleError ends the run
SortPkgs ==
    /\ pc = "sort"
    /\ \E iter_orders \in IterOrders(dict_keys(packages),
                                     job_closures(packages)) :
          LET r == sort_pkgs_by_closures(packages, iter_orders)
          IN  IF r.cycle
              THEN /\ pc' = "aborted"
                   /\ exception' = "CycleError"
                   /\ exit_status' = 1
                   /\ UNCHANGED gh_action_packages
              ELSE /\ pc' = "group"
                   /\ gh_action_packages' = r.sorted_jobs
                   /\ UNCHANGED <<exception, exit_status>>
    /\ UNCHANGED <<stdout_data, stderr_data, returncode, i, line, result,
                   packages, drv_paths, errors_list, warnings_list,
                   packages_by_system, checks_by_system, packages_output,
                   checks_output, sink>>
    /\ UNCHANGED package_go_vars

----------------------------------------------------------------------------
(* Classification: get_runner_for_package, is_extension_pkg and            *)
(* clean_package_for_output.  An optional value is a sequence of length 0  *)
(* (None, key absent) or 1.                                                *)

get_runner_with_default(pkg) ==
    IF pkg.system \in DOMAIN BUILD_RUNNER_MAP
    THEN Some(BUILD_RUNNER_MAP[pkg.system])
    ELSE Some([labels |-> <<"ubuntu-latest">>])

\* BUILD_RUNNER_MAP.get(pkg["system"])
get_runner_for_package(pkg) ==
    IF pkg.system \in DOMAIN BUILD_RUNNER_MAP
    THEN Some(BUILD_RUNNER_MAP[pkg.system])
    ELSE None

is_extension_pkg_any_segment(pkg) ==
    LET attrs == Split(pkg.attr, ".")
    IN  IF Len(attrs) < 2
        THEN [exc |-> "IndexError", value |-> FALSE]
        ELSE [exc |-> "none",
              value |-> \E k \in 1..Len(attrs) : attrs[k] = EXTS]

\* attrs[-2] == "exts"; [exc |-> "IndexError"] when attrs has one element
is_extension_pkg(pkg) ==
    LET attrs == Split(pkg.attr, ".")
    IN  IF Len(attrs) < 2
        THEN [exc |-> "IndexError", value |-> FALSE]
        ELSE [exc |-> "none", value |-> FromEnd(attrs, 2) = EXTS]

\* lines 252-267
clean_package_for_output(pkg) ==
    LET runner == get_runner_for_package(pkg)
        attrs == Split(pkg.attr, ".")
        ext == is_extension_pkg(pkg)
        returned_pkg ==
            [attr |-> pkg.attr, name |-> pkg.name, system |-> pkg.system,
             runs_on |-> IF runner = None THEN [labels |-> <<>>]
                         ELSE runner[1],
             postgresql_version |-> None]
    IN  IF runner = None
        THEN [exc |-> "ValueError", pkg |-> returned_pkg]
        ELSE IF ext.exc # "none"
        THEN [exc |-> ext.exc, pkg |-> returned_pkg]
        ELSE IF ~ext.value
        THEN [exc |-> "none", pkg |-> returned_pkg]
        ELSE IF Len(attrs) < 3
        THEN [exc |-> "IndexError", pkg |-> returned_pkg]
        ELSE [exc |-> "none",
              pkg |-> [returned_pkg EXCEPT !.postgresql_version =
                          Some(LET parts == Split(FromEnd(attrs, 3), "_")
                               IN  FromEnd(parts, 1))]]

----------------------------------------------------------------------------
(* Grouping (lines 270-278) *)

DictAppend_at_front(d, key, x) ==
    IF key \in DOMAIN d
    THEN [d EXCEPT ![key] = <<x>> \o @]
    ELSE d @@ (key :> <<x>>)

\* defaultdict(list)[key].append(x)
DictAppend(d, key, x) ==
    IF key \in DOMAIN d
    THEN [d EXCEPT ![key] = Append(@, x)]
    ELSE d @@ (key :> <<x>>)

EmptyDict == [k \in {} |-> <<>>]

group_one_any_status(acc, pkg) ==
    LET c == clean_package_for_output(pkg)
    IN  IF c.exc # "none" THEN [acc EXCEPT !.exc = c.exc]
        ELSE IF StartsWith(pkg.attr, CHECKS_DOT)
        THEN [acc EXCEPT !.checks = DictAppend(@, pkg.system, c.pkg)]
        ELSE IF StartsWith(pkg.attr, PACKAGES_DOT)
        THEN [acc EXCEPT !.packages = DictAppend(@, pkg.system, c.pkg)]
        ELSE acc

\* the body of the loop for one unit, on the two dicts
group_one(acc, pkg) ==
    IF pkg.cacheStatus # "notBuilt" THEN acc
    ELSE LET c == clean_package_for_output(pkg)
         IN  IF c.exc # "none" THEN [acc EXCEPT !.exc = c.exc]
             ELSE IF StartsWith(pkg.attr, CHECKS_DOT)
             THEN [acc EXCEPT !.checks = DictAppend(@, pkg.system, c.pkg)]
             ELSE IF StartsWith(pkg.attr, PACKAGES_DOT)
             THEN [acc EXCEPT !.packages = DictAppend(@, pkg.system, c.pkg)]
             ELSE acc

\* the loop; it stops at the first exception
RECURSIVE group_loop(_, _, _)
group_loop(acc, pkgs, k) ==
    IF k > Len(pkgs) \/ acc.exc # "none" THEN acc
    ELSE group_loop(group_one(acc, pkgs[k]), pkgs, k + 1)

GroupPkgs ==
    /\ pc = "group"
    /\ LET r == group_loop([packages |-> EmptyDict, checks |-> EmptyDict,
                            exc |-> "none"], gh_action_packages, 1)
       IN  IF r.exc # "none"
           THEN /\ pc' = "aborted"
                /\ exception' = r.exc
                /\ exit_status' = 1
                /\ UNCHANGED <<packages_by_system, checks_by_system>>
           ELSE /\ pc' = "output"
                /\ packages_by_system' = r.packages
                /\ checks_by_system' = r.checks
                /\ UNCHANGED <<exception, exit_status>>
    /\ UNCHANGED <<stdout_data, stderr_data, returncode, i, line, result,
                   packages, drv_paths, errors_list, warnings_list,
                   gh_action_packages, packages_output, checks_output, sink>>
    /\ UNCHANGED package_go_vars

----------------------------------------------------------------------------
(* Matrix assembly (lines 280-316) *)

matrix_key_unchanged(system) == system

\* system.replace("-", "_")
matrix_key(system) == Replace(system, "-", <<"_">>)

\* lines 280-286: one {"include": list} per key of the group's dict
group_output(by_system) ==
    [key \in {matrix_key(sys) : sys \in DOMAIN by_system} |->
        [include |-> by_system[CHOOSE sys \in DOMAIN by_system :
                                   matrix_key(sys) = key]]]

placeholder(name, system) ==
    [attr |-> <<>>, name |-> name, system |-> system,
     runs_on |-> [labels |-> <<"ubuntu-latest">>],
     postgresql_version |-> None]

\* lines 288-311 for one group: a placeholder for every absent platform
RECURSIVE fill_placeholders(_, _, _)
fill_placeholders(output, name, k) ==
    IF k > Len(System) THEN output
    ELSE LET s == matrix_key(System[k])
         IN  fill_placeholders(
                 IF s \notin DOMAIN output
                 THEN output @@
                      (s :> [include |-> <<placeholder(name, System[k])>>])
                 ELSE output,
                 name, k + 1)

BuildOutput ==
    /\ pc = "output"
    /\ packages_output' = fill_placeholders(group_output(packages_by_system),
                                            "no packages to build", 1)
    /\ checks_output' = fill_placeholders(group_output(checks_by_system),
                                          "no checks to build", 1)
    /\ pc' = "warnings"
    /\ UNCHANGED <<stdout_data, stderr_data, returncode, i, line, result,
                   packages, drv_paths, errors_list, warnings_list,
                   gh_action_packages, packages_by_system, checks_by_system,
                   sink, exception, exit_status>>
    /\ UNCHANGED package_go_vars

----------------------------------------------------------------------------
(* Diagnostics (lines 318-342) *)

\* Counter(seq): the distinct elements in order of first occurrence ...
RECURSIVE counter_keys(_)
counter_keys(seq) ==
    IF seq = <<>> THEN <<>>
    ELSE AppendNew(counter_keys(SubSeq(seq, 1, Len(seq) - 1)), seq[Len(seq)])

\* ... and the count of each
RECURSIVE counter_count(_, _)
counter_count(seq, x) ==
    IF seq = <<>> THEN 0
    ELSE (IF Head(seq) = x THEN 1 ELSE 0) + counter_count(Tail(seq), x)

OCCURRED == <<" ", "(", "o", "c", "c", "u", "r", "r", "e", "d", " ">>
TIMES == <<" ", "t", "i", "m", "e", "s", ")">>

warning_report_without_count(warn_msg, count) == warn_msg

\* the message of one warning report (lines 321-327)
warning_report(warn_msg, count) ==
    IF count > 1 THEN warn_msg \o OCCURRED \o Str(count) \o TIMES
    ELSE warn_msg

warning_reports(warnings) ==
    LET keys == counter_keys(warnings)
    IN  [k \in 1..Len(keys) |->
            SinkCall("warning", "Nix Evaluation Warning",
                     warning_report(keys[k],
                                    counter_count(warnings, keys[k])))]

ReportWarnings ==
    /\ pc = "warnings"
    /\ sink' = sink \o warning_reports(warnings_list)
    /\ pc' = "errors"
    /\ UNCHANGED <<stdout_data, stderr_data, returncode, i, line, result,
                   packages, drv_paths, errors_list, warnings_list,
                   gh_action_packages, packages_by_system, checks_by_system,
                   packages_output, checks_output, exception, exit_status>>
    /\ UNCHANGED package_go_vars

error_messages_ungrouped(errs) == [k \in 1..Len(errs) |-> errs[k].error]

\* errors_by_message (lines 331-333): keys in order of first occurrence
RECURSIVE error_messages(_)
error_messages(errs) ==
    IF errs = <<>> THEN <<>>
    ELSE AppendNew(error_messages(SubSeq(errs, 1, Len(errs) - 1)),
                   errs[Len(errs)].error)

\* errors_by_message[msg]: the attrs of the errors with that message
RECURSIVE error_attrs(_, _)
error_attrs(errs, msg) ==
    IF errs = <<>> THEN <<>>
    ELSE (IF Head(errs).error = msg THEN <<Head(errs).attr>> ELSE <<>>)
         \o error_attrs(Tail(errs), msg)

AFFECTED == <<"A", "f", "f", "e", "c", "t", "e", "d", " ", "a", "t", "t",
              "r", "i", "b", "u", "t", "e", "s", " ", "(">>
ATTRIBUTE == <<"A", "t", "t", "r", "i", "b", "u", "t", "e", ":", " ">>
ESCAPED_NL == <<"%", "0", "A">>

\* lines 337-341
formatted_msg(attrs, msg) ==
    Replace(IF Len(attrs) > 1
            THEN AFFECTED \o Str(Len(attrs)) \o <<")", ":", " ">>
                 \o Join(<<",", " ">>, attrs) \o NL \o NL \o msg
            ELSE ATTRIBUTE \o attrs[1] \o NL \o NL \o msg,
            "\n", ESCAPED_NL)

error_reports(errs) ==
    LET keys == error_messages(errs)
    IN  [k \in 1..Len(keys) |->
            SinkCall("error", "Nix Evaluation Error",
                     formatted_msg(error_attrs(errs, keys[k]), keys[k]))]

ReportErrors ==
    /\ pc = "errors"
    /\ sink' = sink \o error_reports(errors_list)
    /\ pc' = "finish"
    /\ UNCHANGED <<stdout_data, stderr_data, returncode, i, line, result,
                   packages, drv_paths, errors_list, warnings_list,
                   gh_action_packages, packages_by_system, checks_by_system,
                   packages_output, checks_output, exception, exit_status>>
    /\ UNCHANGED package_go_vars

----------------------------------------------------------------------------
(* Run outcome (lines 344-352) *)

gh_output == [packages |-> packages_output, checks |-> checks_output]

Finish_ignores_errors ==
    /\ pc = "finish"
    /\ exit_status' = 0
    /\ sink' = sink \o
         <<SinkCall("notice", "GitHub Actions Matrix", gh_output),
           SinkCall("set_output", "packages_matrix", gh_output.packages),
           SinkCall("set_output", "checks_matrix", gh_output.checks)>>
    /\ pc' = "done"
    /\ UNCHANGED <<stdout_data, stderr_data, returncode, i, line, result,
                   packages, drv_paths, errors_list, warnings_list,
                   gh_action_packages, packages_by_system, checks_by_system,
                   packages_output, checks_output, exception>>
    /\ UNCHANGED package_go_vars

Finish ==
    /\ pc = "finish"
    /\ IF errors_list # <<>>
       THEN /\ exit_status' = 1
            /\ UNCHANGED sink
       ELSE /\ exit_status' = 0
            /\ sink' = sink \o
                 <<SinkCall("notice", "GitHub Actions Matrix", gh_output),
                   SinkCall("set_output", "packages_matrix",
                            gh_output.packages),
                   SinkCall("set_output", "checks_matrix", gh_output.checks)>>
    /\ pc' = "done"
    /\ UNCHANGED <<stdout_data, stderr_data, returncode, i, line, result,
                   packages, drv_paths, errors_list, warnings_list,
                   gh_action_packages, packages_by_system, checks_by_system,
                   packages_output, checks_output, exception>>
    /\ UNCHANGED package_go_vars

----------------------------------------------------------------------------
(* Inputs.  A run is determined by what process.communicate() returned:    *)
(* the stdout lines, the stderr lines and the return code.                 *)

BoundedSeq(S, n) == UNION {[1..k -> S] : k \in 0..n}

\* attribute strings
X86_64_DARWIN ==
    <<"x", "8", "6", "_", "6", "4", "-", "d", "a", "r", "w", "i", "n">>
ATTR_PKG_F == PACKAGES_DOT \o X86_64_LINUX \o <<".", "f">>
ATTR_PKG_G == PACKAGES_DOT \o X86_64_LINUX \o <<".", "g">>
ATTR_PKG_H == PACKAGES_DOT \o X86_64_LINUX \o <<".", "h">>
ATTR_PKG_ARM == PACKAGES_DOT \o AARCH64_LINUX \o <<".", "g">>
ATTR_PKG_MAC == PACKAGES_DOT \o AARCH64_DARWIN \o <<".", "g">>
ATTR_PKG_X86MAC == PACKAGES_DOT \o X86_64_DARWIN \o <<".", "g">>
ATTR_CHECK_G == CHECKS_DOT \o AARCH64_LINUX \o <<".", "g">>
ATTR_CHECK_H == CHECKS_DOT \o X86_64_LINUX \o <<".", "h">>
ATTR_APP_H == <<"a", "p", "p", "s", ".">> \o X86_64_LINUX \o <<".", "h">>
ATTR_EXT ==
    PACKAGES_DOT \o X86_64_LINUX
    \o <<".", "p", "g", "_", "1", "5", ".">> \o EXTS \o <<".", "h">>
ATTR_ONE_SEGMENT == <<"h">>
ATTR_PACKAGES_ONLY == <<"p", "a", "c", "k", "a", "g", "e", "s">>
ATTR_TWO_SEGMENTS == EXTS \o <<".", "h">>

\* the name field of the unit with a given drvPath (a drvPath embeds it)
NameOf(drv) ==
    CASE drv = "d1" -> "n1" [] drv = "d2" -> "n2" [] drv = "d3" -> "n3"
      [] drv = "d4" -> "n4" [] OTHER -> "n9"

Unit(drv, attr, sys, cache, builds, subs) ==
    UnitRecord(drv, NameOf(drv), attr, sys, cache, builds, subs, {})

\* error messages
MSG_PLAIN == <<"b", "a", "d">>
MSG_TRACE ==
    <<"t", "r", "a", "c", "e", "\n", " ">> \o ERROR_COLON
    \o <<" ", "x", "\n", "a", "\n", "b", "\n", "c", "\n", "d">>

\* diagnostic lines
STDERR_WARN_A == WARNING_COLON \o <<" ", "A">>
STDERR_WARN_B == <<" ">> \o WARNING_COLON \o <<" ", "B", " ">>
STDERR_EVAL_WARN == EVALUATION_WARNING_COLON \o <<" ", "C">>
STDERR_WARN_A_TIGHT == WARNING_COLON \o <<"A">>
STDERR_NOTE == <<"n", "o", "t", "e">>

\* lines for the runs on which parsing and the run outcome are checked
MainLines ==
    { BlankLine,
      InvalidLine,
      ErrorRecord(ATTR_PKG_F, MSG_PLAIN),
      Unit("d1", ATTR_PKG_F, X86_64_LINUX, "notBuilt", {"d2"}, {}),
      Unit("d1", ATTR_PKG_G, X86_64_LINUX, "cached", {}, {}),
      Unit("d2", ATTR_CHECK_G, AARCH64_LINUX, "notBuilt", {}, {"d1"}),
      Unit("d2", ATTR_PKG_X86MAC, X86_64_DARWIN, "notBuilt", {}, {}),
      UnitRecord("d3", "n3", ATTR_CHECK_H, X86_64_LINUX, "notBuilt", {}, {},
                 {"nixos-test"}),
      UnitRecord("d3", "n3", ATTR_CHECK_G, AARCH64_LINUX, "notBuilt", {"d1"},
                 {}, {"nixos-test", "kvm"}) }

MainInputs ==
    {<<out, err, rc>> : out \in BoundedSeq(MainLines, MaxLines),
                        err \in {<<>>, <<STDERR_WARN_A, STDERR_NOTE>>},
                        rc \in {0, 1}}

\* lines for the runs on which the closure sort is checked: four units
\* with varying predecessor lists, among them self-references ("d1" in
\* d1), predecessors outside the batch ("d9") and cycles of 2, 3 and 4
SortLines ==
    { Unit("d1", ATTR_PKG_F, X86_64_LINUX, "notBuilt", {}, {}),
      Unit("d1", ATTR_PKG_F, X86_64_LINUX, "cached", {"d1"}, {"d9"}),
      Unit("d1", ATTR_PKG_F, X86_64_LINUX, "notBuilt", {"d2"}, {}),
      Unit("d1", ATTR_PKG_F, X86_64_LINUX, "local", {}, {"d3", "d1"}),
      Unit("d2", ATTR_PKG_G, X86_64_LINUX, "notBuilt", {"d1"}, {}),
      Unit("d2", ATTR_CHECK_G, AARCH64_LINUX, "cached", {"d9"}, {"d3"}),
      Unit("d3", ATTR_PKG_H, X86_64_LINUX, "notBuilt", {"d2"}, {}),
      Unit("d3", ATTR_CHECK_H, X86_64_LINUX, "notBuilt", {"d1"}, {"d2"}),
      Unit("d3", ATTR_PKG_H, X86_64_LINUX, "cached", {}, {"d4"}),
      Unit("d4", ATTR_PKG_MAC, AARCH64_DARWIN, "notBuilt", {"d3", "d2"},
           {"d1", "d4"}),
      Unit("d4", ATTR_PKG_MAC, AARCH64_DARWIN, "notBuilt", {}, {"d1"}) }

SortInputs ==
    {<<out, <<STDERR_NOTE>>, 0>> : out \in BoundedSeq(SortLines, MaxLines)}

\* lines for the runs on which classification and the matrix are checked:
\* units of both groups and of neither, on every supported platform and on
\* an unsupported one, of every cacheStatus, with attribute paths of one
\* to five segments
MatrixLines ==
    { Unit("d1", ATTR_PKG_F, X86_64_LINUX, "notBuilt", {}, {}),
      Unit("d1", ATTR_PKG_F, X86_64_LINUX, "cached", {}, {}),
      Unit("d1", ATTR_PKG_X86MAC, X86_64_DARWIN, "cached", {}, {}),
      Unit("d1", ATTR_TWO_SEGMENTS, AARCH64_LINUX, "notBuilt", {}, {}),
      Unit("d2", ATTR_PKG_G, X86_64_LINUX, "notBuilt", {"d1"}, {}),
      Unit("d2", ATTR_CHECK_G, AARCH64_LINUX, "notBuilt", {"d1"}, {}),
      Unit("d2", ATTR_PKG_MAC, AARCH64_DARWIN, "local", {}, {}),
      Unit("d2", ATTR_PKG_X86MAC, X86_64_DARWIN, "notBuilt", {}, {}),
      Unit("d2", ATTR_PACKAGES_ONLY, AARCH64_LINUX, "notBuilt", {}, {}),
      Unit("d3", ATTR_PKG_H, X86_64_LINUX, "notBuilt", {"d2"}, {}),
      Unit("d3", ATTR_CHECK_H, X86_64_LINUX, "notBuilt", {}, {}),
      Unit("d3", ATTR_APP_H, X86_64_LINUX, "notBuilt", {}, {}),
      Unit("d3", ATTR_EXT, X86_64_LINUX, "notBuilt", {"d1"}, {}),
      Unit("d3", ATTR_ONE_SEGMENT, X86_64_LINUX, "notBuilt", {}, {}) }

MatrixInputs ==
    {<<out, <<STDERR_WARN_A>>, 0>> : out \in BoundedSeq(MatrixLines, MaxLines)}

\* lines of the diagnostic channel for the runs on which the warning
\* reports are checked: both markers, surrounding blanks, two spellings of
\* one warning, and a line without marker
DiagLines ==
    {STDERR_WARN_A, STDERR_WARN_A_TIGHT, STDERR_WARN_B, STDERR_EVAL_WARN,
     STDERR_NOTE}

DiagInputs ==
    {<<out, err, 0>> :
        out \in {<<>>, <<InvalidLine>>,
                 <<Unit("d1", ATTR_PKG_F, X86_64_LINUX, "notBuilt", {}, {})>>},
        err \in BoundedSeq(DiagLines, MaxStderrLines)}

\* lines for the runs on which the error messages and the error reports
\* are checked: a message without "error:" line, two traces whose last
\* "error:" line is indented and is followed by more than three lines,
\* a message with two "error:" lines and less than three lines after the
\* last one, and one unit
MSG_TRACE_OTHER ==
    <<"o", "\n", " ">> \o ERROR_COLON
    \o <<" ", "x", "\n", "a", "\n", "b", "\n", "c", "\n", "e", "\n", "f">>
MSG_TWO_ERRORS ==
    ERROR_COLON \o <<" ", "a", "\n">> \o ERROR_COLON \o <<" ", "b", "\n">>

ErrLines ==
    { ErrorRecord(ATTR_PKG_F, MSG_PLAIN),
      ErrorRecord(ATTR_PKG_G, MSG_PLAIN),
      ErrorRecord(ATTR_PKG_F, MSG_TRACE),
      ErrorRecord(ATTR_CHECK_G, MSG_TRACE_OTHER),
      ErrorRecord(ATTR_PKG_H, MSG_TWO_ERRORS),
      Unit("d1", ATTR_PKG_F, X86_64_LINUX, "notBuilt", {}, {}) }

ErrInputs ==
    {<<out, <<STDERR_NOTE>>, 1>> : out \in BoundedSeq(ErrLines, MaxLines)}

\* lines for the runs on which the extracted version is checked: "exts" as
\* second-to-last segment behind segments with one, two and no underscore
\* and with nothing after the underscore, "exts" as last segment, and a
\* segment that only ends in "exts"
ATTR_EXT_PG ==
    PACKAGES_DOT \o X86_64_LINUX
    \o <<".", "p", "o", "s", "t", "g", "r", "e", "s", "q", "l", "_", "1",
         "5", ".">> \o EXTS \o <<".", "f", "o", "o">>
ATTR_EXT_EMPTY_VERSION ==
    PACKAGES_DOT \o X86_64_LINUX \o <<".", "p", "g", "_", ".">> \o EXTS
    \o <<".", "h">>
ATTR_EXT_AFTER_PLATFORM == PACKAGES_DOT \o X86_64_LINUX \o <<".">> \o EXTS
                           \o <<".", "h">>
ATTR_EXT_SHORT == CHECKS_DOT \o EXTS \o <<".", "h">>
ATTR_EXTS_LAST == PACKAGES_DOT \o X86_64_LINUX \o <<".">> \o EXTS
ATTR_NOT_QUITE_EXTS ==
    PACKAGES_DOT \o X86_64_LINUX \o <<".", "p", "g", "_", "1", "5", ".", "x">>
    \o EXTS \o <<".", "h">>

ExtLines ==
    { Unit("d1", ATTR_EXT_PG, X86_64_LINUX, "notBuilt", {}, {}),
      Unit("d1", ATTR_EXT_EMPTY_VERSION, X86_64_LINUX, "notBuilt", {}, {}),
      Unit("d2", ATTR_EXTS_LAST, X86_64_LINUX, "notBuilt", {"d1"}, {}),
      Unit("d2", ATTR_EXT_SHORT, AARCH64_LINUX, "notBuilt", {}, {}),
      Unit("d2", ATTR_PKG_G, X86_64_LINUX, "notBuilt", {}, {}),
      Unit("d3", ATTR_EXT_AFTER_PLATFORM, X86_64_LINUX, "notBuilt", {}, {}),
      Unit("d3", ATTR_NOT_QUITE_EXTS, AARCH64_DARWIN, "notBuilt", {}, {}) }

ExtInputs ==
    {<<out, <<STDERR_NOTE>>, 0>> : out \in BoundedSeq(ExtLines, MaxLines)}

----------------------------------------------------------------------------
(* scripts/package-go.py.  Every string is a sequence of one-character     *)
(* strings.  The config file is modelled by the dict json.load would read  *)
(* from it: json.dump and json.load of a dict of strings are inverse.      *)

Truthy(opt) == opt # None /\ opt[1] # <<>>

RECURSIVE RStripChar(_, _)
RStripChar(str, c) ==
    IF str # <<>> /\ str[Len(str)] = c
    THEN RStripChar(SubSeq(str, 1, Len(str) - 1), c)
    ELSE str

EndsWith(str, suffix) ==
    /\ Len(str) >= Len(suffix)
    /\ SubSeq(str, Len(str) - Len(suffix) + 1, Len(str)) = suffix

Lower(str) ==
    [k \in 1..Len(str) |->
        IF str[k] = "N" THEN "n"
        ELSE IF str[k] = "O" THEN "o"
        ELSE IF str[k] = "Y" THEN "y"
        ELSE str[k]]

\* line.split()[-1] of a line that holds a word
LastWord(str) ==
    LET s == RStrip(str)
        start == CHOOSE k \in 1..Len(s) :
                    /\ \A m \in k..Len(s) : s[m] \notin Whitespace
                    /\ k = 1 \/ s[k - 1] \in Whitespace
    IN  SubSeq(s, start, Len(s))

HTTP_PREFIX == <<"h", "t", "t", "p", ":", "/", "/">>
HTTPS_PREFIX == <<"h", "t", "t", "p", "s", ":", "/", "/">>
DOT_GIT == <<".", "g", "i", "t">>
GITHUB_COM_SLASH == <<"g", "i", "t", "h", "u", "b", ".", "c", "o", "m", "/">>
GOT_COLON == <<"g", "o", "t", ":">>
SHA256_DASH == <<"s", "h", "a", "2", "5", "6", "-">>
MY_GO_SERVICE == 
    <<"m", "y", "-", "g", "o", "-", "s", "e", "r", "v", "i", "c", "e">>

FAKE_HASH == SHA256_DASH \o [k \in 1..43 |-> "A"] \o <<"=">>

\* prompt (lines 21-30) for one answer typed: the value returned, or None
\* when the answer is refused and the question is asked again
prompt(answer, default) ==
    LET value == Strip(answer)
    IN  IF Truthy(default)
        THEN Some(IF value # <<>> THEN value ELSE default[1])
        ELSE IF value # <<>> THEN Some(value) ELSE None

\* parse_github_url (lines 33-43): <<owner, repo>> wrapped, or None
parse_github_url(url) ==
    LET u1 == RStripChar(Strip(url), "/")
        u2 == IF StartsWith(u1, HTTPS_PREFIX)
              THEN SubSeq(u1, Len(HTTPS_PREFIX) + 1, Len(u1))
              ELSE IF StartsWith(u1, HTTP_PREFIX)
              THEN SubSeq(u1, Len(HTTP_PREFIX) + 1, Len(u1))
              ELSE u1
        u3 == IF EndsWith(u2, DOT_GIT)
              THEN SubSeq(u2, 1, Len(u2) - Len(DOT_GIT))
              ELSE u2
        parts == Split(SubSeq(u3, Len(GITHUB_COM_SLASH) + 1, Len(u3)), "/")
    IN  IF /\ StartsWith(u3, GITHUB_COM_SLASH)
           /\ Len(parts) = 2
           /\ parts[1] # <<>>
           /\ parts[2] # <<>>
        THEN Some(<<parts[1], parts[2]>>)
        ELSE None

\* validate_github_ref (lines 46-60) for what curl printed, or "timeout"
validate_github_ref(status) == status \in {"200", "302"}

\* prefetch_source (lines 63-101) for the outcome of its two subprocesses
prefetch_source(run) ==
    IF run.timeout THEN None
    ELSE IF run.prefetch_returncode # 0 THEN None
    ELSE IF run.convert_returncode # 0 THEN None
    ELSE Some(Strip(run.sri_stdout))

\* the loop of lines 125-130 over the lines of the build's stderr
RECURSIVE got_hash(_)
got_hash(lines) ==
    IF lines = <<>> THEN None
    ELSE LET l == Strip(Head(lines))
         IN  IF StartsWith(l, GOT_COLON)
                   /\ StartsWith(LastWord(l), SHA256_DASH)
             THEN Some(LastWord(l))
             ELSE got_hash(Tail(lines))

\* what compute_vendor_hash returns (lines 115-142) for the outcome of
\* its nix build
compute_vendor_hash(build) ==
    IF build.timeout THEN None
    ELSE IF got_hash(build.stderr) # None THEN got_hash(build.stderr)
    ELSE IF build.returncode # 0 THEN None
    ELSE Some(FAKE_HASH)

\* the temp config compute_vendor_hash writes (lines 109-110)
tmp_config(cfg) == [cfg EXCEPT !.vendorHash = FAKE_HASH]

\* what the user types at a prompt
TypedAnswers ==
    { <<>>,
      <<"a", "u", "t", "h">>,
      <<" ", "v", "1", " ">>,
      <<"g", "i", "t", "h", "u", "b", ".", "c", "o", "m", "/", "s", "/",
        "a">>,
      <<"h", "t", "t", "p", "s", ":", "/", "/", "g", "i", "t", "h", "u",
        "b", ".", "c", "o", "m", "/", "s", "/", "b", ".", "g", "i", "t",
        "/">>,
      <<"g", "i", "t", "h", "u", "b", ".", "c", "o", "m", "/", "s">> }

ConfirmAnswers ==
    { <<>>, <<"y">>, <<"n">>, <<" ", "N", "o", " ">>, <<"n", "o", "p", "e">> }

PrefetchRuns ==
    { [timeout |-> TRUE, prefetch_returncode |-> 0, convert_returncode |-> 0,
       sri_stdout |-> <<>>],
      [timeout |-> FALSE, prefetch_returncode |-> 1, convert_returncode |-> 0,
       sri_stdout |-> <<>>],
      [timeout |-> FALSE, prefetch_returncode |-> 0, convert_returncode |-> 1,
       sri_stdout |-> <<>>],
      [timeout |-> FALSE, prefetch_returncode |-> 0, convert_returncode |-> 0,
       sri_stdout |-> <<NL>>],
      [timeout |-> FALSE, prefetch_returncode |-> 0, convert_returncode |-> 0,
       sri_stdout |-> SHA256_DASH \o <<"S", NL>>] }

REAL_HASH == SHA256_DASH \o <<"R">>

OTHER_HASH == SHA256_DASH \o <<"Q">>

\* outcomes of the nix build of compute_vendor_hash: a timeout, a hash
\* mismatch, two "got:" lines, a failure with no usable "got:" line, and
\* a build that succeeds with the fake hash
VendorBuilds ==
    { [timeout |-> TRUE, returncode |-> 0, stderr |-> <<>>],
      [timeout |-> FALSE, returncode |-> 1,
       stderr |-> << <<"s", "p", "e", "c", "i", "f", "i", "e", "d", ":", " ">> \o FAKE_HASH,
                     <<" ", " ">> \o GOT_COLON \o <<" ", " ">> \o REAL_HASH >>],
      [timeout |-> FALSE, returncode |-> 1,
       stderr |-> << GOT_COLON \o <<" ">> \o OTHER_HASH,
                     GOT_COLON \o <<" ">> \o REAL_HASH >>],
      [timeout |-> FALSE, returncode |-> 1,
       stderr |-> << GOT_COLON, GOT_COLON \o <<" ", "m", "d", "5", "-", "x">> >>],
      [timeout |-> FALSE, returncode |-> 0, stderr |-> <<>>] }

\* what .package-config.json can hold before a run: the template of the
\* skeleton and the config a previous run wrote
SKELETON_CONFIG ==
    [name |-> MY_GO_SERVICE, description |-> <<>>, owner |-> <<>>,
     repo |-> <<>>, ref |-> <<>>, sha256 |-> <<>>, vendorHash |-> <<>>]

PREVIOUS_CONFIG ==
    [name |-> <<"a", "u", "t", "h">>, description |-> <<>>,
     owner |-> <<"o">>, repo |-> <<"r">>, ref |-> <<"v", "0">>,
     sha256 |-> SHA256_DASH \o <<"P">>, vendorHash |-> OTHER_HASH]

ConfigFiles == {None, Some(SKELETON_CONFIG), Some(PREVIOUS_CONFIG)}

Argvs ==
    { <<"package-go.py">>, <<"package-go.py", "go">>,
      <<"package-go.py", "rust">> }

Exit(status) ==
    /\ go_pc' = "done"
    /\ go_exit_status' = status

\* lines 146-159: the usage check and load_existing_config
Start ==
    /\ go_pc = "start"
    /\ IF Len(argv) < 2 \/ argv[2] # "go"
       THEN /\ Exit(1)
            /\ UNCHANGED existing
       ELSE /\ existing' = config_file
            /\ go_pc' = "inputs"
            /\ UNCHANGED go_exit_status
    /\ UNCHANGED <<argv, config_file, answers, sha256, config, vendor_hash>>
    /\ UNCHANGED matrix_vars

is_retry == existing # None /\ existing[1].name # MY_GO_SERVICE

\* lines 161-185: the four questions, each with the answer that was
\* accepted; a refused answer only repeats its question
GatherInputs ==
    /\ go_pc = "inputs"
    /\ \E a_name, a_description, a_url, a_ref \in TypedAnswers :
          LET name_ == prompt(a_name,
                        IF is_retry THEN Some(existing[1].name) ELSE None)
              description_ ==
                  prompt(a_description,
                         IF is_retry THEN Some(existing[1].description)
                         ELSE None)
              default_url ==
                  IF is_retry
                  THEN Some(GITHUB_COM_SLASH \o existing[1].owner
                                \o <<"/">> \o existing[1].repo)
                  ELSE None
              gh_url == prompt(a_url, default_url)
              ref_ == prompt(a_ref,
                       IF is_retry THEN Some(existing[1].ref) ELSE None)
          IN  /\ name_ # None
              /\ description_ # None
              /\ gh_url # None
              /\ parse_github_url(gh_url[1]) # None
              /\ ref_ # None
              /\ answers' = Some([name |-> name_[1],
                                  description |-> description_[1],
                                  owner |-> parse_github_url(gh_url[1])[1][1],
                                  repo |-> parse_github_url(gh_url[1])[1][2],
                                  ref |-> ref_[1]])
    /\ go_pc' = "validate"
    /\ UNCHANGED <<argv, config_file, existing, sha256, config, vendor_hash,
                   go_exit_status>>
    /\ UNCHANGED matrix_vars

\* lines 187-193
ValidateRef ==
    /\ go_pc = "validate"
    /\ \E status \in {"200", "302", "404", "", "timeout"} :
          IF ~validate_github_ref(status)
          THEN Exit(1)
          ELSE /\ go_pc' = "prefetch"
               /\ UNCHANGED go_exit_status
    /\ UNCHANGED <<argv, config_file, existing, answers, sha256, config,
                   vendor_hash>>
    /\ UNCHANGED matrix_vars

\* lines 195-200
PrefetchSource ==
    /\ go_pc = "prefetch"
    /\ \E run \in PrefetchRuns :
          /\ sha256' = prefetch_source(run)
          /\ IF ~Truthy(prefetch_source(run))
             THEN Exit(1)
             ELSE /\ go_pc' = "vendor"
                  /\ UNCHANGED go_exit_status
    /\ UNCHANGED <<argv, config_file, existing, answers, config, vendor_hash>>
    /\ UNCHANGED matrix_vars

\* lines 202-219, with the write of lines 109-113 inside compute_vendor_hash
ComputeVendorHash ==
    /\ go_pc = "vendor"
    /\ LET cfg == [name |-> answers[1].name,
                   description |-> answers[1].description,
                   owner |-> answers[1].owner,
                   repo |-> answers[1].repo,
                   ref |-> answers[1].ref,
                   sha256 |-> sha256[1],
                   vendorHash |-> <<>>]
       IN  /\ config_file' = Some(tmp_config(cfg))
           /\ \E build \in VendorBuilds :
                 /\ vendor_hash' = compute_vendor_hash(build)
                 /\ IF ~Truthy(compute_vendor_hash(build))
                    THEN /\ config' = Some(cfg)
                         /\ Exit(1)
                    ELSE /\ config' = Some([cfg EXCEPT !.vendorHash =
                                               compute_vendor_hash(build)[1]])
                         /\ go_pc' = "confirm"
                         /\ UNCHANGED go_exit_status
    /\ UNCHANGED <<argv, existing, answers, sha256>>
    /\ UNCHANGED matrix_vars

\* lines 231-234
Confirm ==
    /\ go_pc = "confirm"
    /\ \E answer \in ConfirmAnswers :
          LET confirm == Lower(Strip(answer))
          IN  IF confirm \in {<<"n">>, <<"n", "o">>}
              THEN Exit(0)
              ELSE /\ go_pc' = "write"
                   /\ UNCHANGED go_exit_status
    /\ UNCHANGED <<argv, config_file, existing, answers, sha256, config,
                   vendor_hash>>
    /\ UNCHANGED matrix_vars

\* lines 236-240
WriteConfig ==
    /\ go_pc = "write"
    /\ config_file' = config
    /\ go_pc' = "verify"
    /\ UNCHANGED <<argv, existing, answers, sha256, config, vendor_hash,
                   go_exit_status>>
    /\ UNCHANGED matrix_vars

\* lines 242-254; the TimeoutExpired of line 244 is not caught
VerifyBuild ==
    /\ go_pc = "verify"
    /\ \E outcome \in {0, 1, 2} :
          Exit(IF outcome = 0 THEN 0 ELSE 1)
    /\ UNCHANGED <<argv, config_file, existing, answers, sha256, config,
                   vendor_hash>>
    /\ UNCHANGED matrix_vars

\* no run of package-go.py
PackageGoIdle ==
    /\ argv = <<>>
    /\ go_pc = "idle"
    /\ config_file = None
    /\ existing = None
    /\ answers = None
    /\ sha256 = None
    /\ config = None
    /\ vendor_hash = None
    /\ go_exit_status = -1

----------------------------------------------------------------------------
(* Initial states: one run of github_matrix.py over one input, or one run  *)
(* of package-go.py                                                        *)

RunInit(inputs) ==
    /\ \E inp \in inputs :
          /\ stdout_data = inp[1]
          /\ stderr_data = inp[2]
          /\ returncode = inp[3]
    /\ pc = "stdout"
    /\ i = 1
    /\ line = BlankLine
    /\ result = Ok(None)
    /\ packages = <<>>
    /\ drv_paths = {}
    /\ errors_list = <<>>
    /\ warnings_list = <<>>
    /\ gh_action_packages = <<>>
    /\ packages_by_system = EmptyDict
    /\ checks_by_system = EmptyDict
    /\ packages_output = EmptyDict
    /\ checks_output = EmptyDict
    /\ sink = <<>>
    /\ exception = "none"
    /\ exit_status = -1
    /\ PackageGoIdle

Init == RunInit(MainInputs)

InitSort == RunInit(SortInputs)

InitMatrix == RunInit(MatrixInputs)

InitDiag == RunInit(DiagInputs)

InitErr == RunInit(ErrInputs)

InitExt == RunInit(ExtInputs)

\* a run of package-go.py, and no run of github_matrix.py
InitGo ==
    /\ argv \in Argvs
    /\ go_pc = "start"
    /\ config_file \in ConfigFiles
    /\ existing = None
    /\ answers = None
    /\ sha256 = None
    /\ config = None
    /\ vendor_hash = None
    /\ go_exit_status = -1
    /\ stdout_data = <<>>
    /\ stderr_data = <<>>
    /\ returncode = 0
    /\ pc = "idle"
    /\ i = 1
    /\ line = BlankLine
    /\ result = Ok(None)
    /\ packages = <<>>
    /\ drv_paths = {}
    /\ errors_list = <<>>
    /\ warnings_list = <<>>
    /\ gh_action_packages = <<>>
    /\ packages_by_system = EmptyDict
    /\ checks_by_system = EmptyDict
    /\ packages_output = EmptyDict
    /\ checks_output = EmptyDict
    /\ sink = <<>>
    /\ exception = "none"
    /\ exit_status = -1

----------------------------------------------------------------------------
(* Specifications *)

Next ==
    \/ ParseLine
    \/ EndStdout
    \/ ParseStderrLine
    \/ ReturnFromEval
    \/ SortPkgs
    \/ GroupPkgs
    \/ BuildOutput
    \/ ReportWarnings
    \/ ReportErrors
    \/ Finish

Spec == Init /\ [][Next]_vars

SpecSort == InitSort /\ [][Next]_vars

SpecMatrix == InitMatrix /\ [][Next]_vars

SpecDiag == InitDiag /\ [][Next]_vars

SpecErr == InitErr /\ [][Next]_vars

SpecExt == InitExt /\ [][Next]_vars

NextGo ==
    \/ Start
    \/ GatherInputs
    \/ ValidateRef
    \/ PrefetchSource
    \/ ComputeVendorHash
    \/ Confirm
    \/ WriteConfig
    \/ VerifyBuild

SpecGo == InitGo /\ [][NextGo]_vars

----------------------------------------------------------------------------
(* The restricted dependency graph of a batch, stated on the units'        *)
(* fields: an edge from a unit to each other unit of the batch named in    *)
(* its neededBuilds or neededSubstitutes.                                  *)

Needed(u) == u.neededBuilds \cup u.neededSubstitutes

Edges(jobs) ==
    {e \in job_set(jobs) \X job_set(jobs) :
        /\ e[1] # e[2]
        /\ \E k \in 1..Len(jobs) :
              jobs[k].drvPath = e[1] /\ e[2] \in Needed(jobs[k])}

RECURSIVE Reach(_)
Reach(R) ==
    LET step == R \cup {<<p[1][1], p[2][2]>> :
                            p \in {q \in R \X R : q[1][2] = q[2][1]}}
    IN  IF step = R THEN R ELSE Reach(step)

HasCycle(jobs) == \E e \in Reach(Edges(jobs)) : e[1] = e[2]

SortReturnedOrRaised == pc \notin {"stdout", "stderr", "sort"}

MatrixEmitted ==
    \E k \in 1..Len(sink) : sink[k].fn \in {"notice", "set_output"}

----------------------------------------------------------------------------
(* C1: for a batch whose restricted dependency graph is acyclic the sort   *)
(* returns (no CycleError, self-references and predecessors outside the    *)
(* batch notwithstanding) and in its output every unit comes after each    *)
(* other unit of the batch named in its neededBuilds or neededSubstitutes, *)
(* whatever the units' cacheStatus.                                        *)
C1_TopologicalOrder ==
    (SortReturnedOrRaised /\ ~HasCycle(packages)) =>
        /\ exception # "CycleError"
        /\ \A a, b \in 1..Len(gh_action_packages) :
              (/\ gh_action_packages[a].drvPath
                      \in Needed(gh_action_packages[b])
               /\ gh_action_packages[a].drvPath
                      # gh_action_packages[b].drvPath)
              => a < b

\* a sorted batch of three that had to be reordered, with a self-reference,
\* a predecessor outside the batch and a unit that is not notBuilt
C1_Witness ==
    /\ pc = "group"
    /\ Len(gh_action_packages) = 3
    /\ gh_action_packages # packages
    /\ \E k \in 1..3 : packages[k].drvPath \in Needed(packages[k])
    /\ \E k \in 1..3 : "d9" \in Needed(packages[k])
    /\ \E k \in 1..3 : packages[k].cacheStatus # "notBuilt"

(* C3: a batch whose restricted dependency graph has a cycle ends the run  *)
(* with a CycleError at the sorting step: no ordering is returned, and     *)
(* neither the notice nor the two matrix outputs are emitted.              *)
C3_CycleAborts ==
    HasCycle(packages) =>
        /\ ~MatrixEmitted
        /\ gh_action_packages = <<>>
        /\ SortReturnedOrRaised =>
              (pc = "aborted" /\ exception = "CycleError" /\ exit_status = 1)

\* a run aborted by a cycle through all three units of the batch
C3_Witness ==
    /\ pc = "aborted"
    /\ exception = "CycleError"
    /\ Len(packages) = 3
    /\ \A a, b \in job_set(packages) : <<a, b>> \in Reach(Edges(packages))

----------------------------------------------------------------------------
(* C2: the accepted list never holds two units with the same drvPath and   *)
(* the seen set holds exactly the accepted drvPaths; a parse step on a     *)
(* unit record whose drvPath is not yet seen and that is not excluded      *)
(* appends the record and adds its drvPath, and a parse step on a unit     *)
(* record whose drvPath is already seen returns Ok(None) and leaves the    *)
(* seen set and the accepted list unchanged.                               *)
IsUnitRecord(ln) == ln.kind = "json" /\ ~ln.has_error

NixosTestOnX86(ln) ==
    "nixos-test" \in ln.requiredSystemFeatures /\ ln.system = X86_64_LINUX

C2_DedupStep ==
    (pc = "stdout" /\ i' = i + 1 /\ IsUnitRecord(stdout_data[i])) =>
        LET ln == stdout_data[i]
        IN  /\ ln.drvPath \in drv_paths =>
                  /\ result' = Ok(None)
                  /\ drv_paths' = drv_paths
                  /\ packages' = packages
            /\ (ln.drvPath \notin drv_paths /\ ~NixosTestOnX86(ln)) =>
                  /\ result' = Ok(Some(ln))
                  /\ drv_paths' = drv_paths \cup {ln.drvPath}
                  /\ packages' = Append(packages, ln)

C2_NoDuplicateDrvPath ==
    /\ \A a, b \in 1..Len(packages) :
          packages[a].drvPath = packages[b].drvPath => a = b
    /\ drv_paths = job_set(packages)

\* C2: no duplicate drvPath is ever accepted, and every parse step on a
\* unit record treats the seen set as stated above
C2_Dedup == []C2_NoDuplicateDrvPath /\ [][C2_DedupStep]_vars

\* an accepted line was parsed a second time, and another record with the
\* drvPath of an accepted unit but other content was parsed as well
C2_Witness ==
    /\ pc = "stderr"
    /\ Len(stdout_data) = 3
    /\ Len(packages) = 1
    /\ \E a, b \in 1..3 : a < b /\ stdout_data[a] = stdout_data[b]
                                /\ stdout_data[a] = packages[1]
    /\ \E a \in 1..3 : /\ stdout_data[a] # packages[1]
                       /\ stdout_data[a].drvPath = packages[1].drvPath

----------------------------------------------------------------------------
(* The matrix as the claims read it *)

MatrixBuilt == pc \in {"warnings", "errors", "finish", "done"}

Groups == {"packages", "checks"}

GroupOutput(g) == IF g = "packages" THEN packages_output ELSE checks_output

FirstSegment(attr) == Split(attr, ".")[1]

GroupSegment(g) ==
    IF g = "packages" THEN <<"p", "a", "c", "k", "a", "g", "e", "s">>
    ELSE <<"c", "h", "e", "c", "k", "s">>

PlatformKeys ==
    <<<<"x", "8", "6", "_", "6", "4", "_", "l", "i", "n", "u", "x">>,
      <<"a", "a", "r", "c", "h", "6", "4", "_", "l", "i", "n", "u", "x">>,
      <<"a", "a", "r", "c", "h", "6", "4", "_", "d", "a", "r", "w", "i", "n">>>>

Platforms == <<X86_64_LINUX, AARCH64_LINUX, AARCH64_DARWIN>>

IsPlaceholder(e) ==
    e.attr = <<>> /\ e.runs_on = [labels |-> <<"ubuntu-latest">>]

\* the accepted not-built units of group g that target platform sys
Targets(g, sys) ==
    {k \in 1..Len(packages) :
        /\ packages[k].cacheStatus = "notBuilt"
        /\ packages[k].system = sys
        /\ FirstSegment(packages[k].attr) = GroupSegment(g)}

\* the entries of the whole matrix, as <<group, key, position>>
EntryPositions ==
    {p \in Groups \X {PlatformKeys[k] : k \in 1..3} \X (1..MaxLines + 1) :
        /\ p[2] \in DOMAIN GroupOutput(p[1])
        /\ p[3] <= Len(GroupOutput(p[1])[p[2]].include)}

EntryAt(p) == GroupOutput(p[1])[p[2]].include[p[3]]

(* C4: once the matrix is built, each supported platform's key (hyphens    *)
(* replaced by underscores) is in both maps with a non-empty include list: *)
(* exactly one placeholder (empty attr, runner ubuntu-latest) when no      *)
(* not-built unit of the group targets the platform, and otherwise no      *)
(* placeholder at all.                                                     *)
C4_EveryPlatformHasEntries ==
    MatrixBuilt =>
        \A g \in Groups : \A k \in 1..3 :
            /\ PlatformKeys[k] \in DOMAIN GroupOutput(g)
            /\ LET include == GroupOutput(g)[PlatformKeys[k]].include
               IN  /\ Len(include) >= 1
                   /\ IF Targets(g, Platforms[k]) = {}
                      THEN Len(include) = 1 /\ IsPlaceholder(include[1])
                      ELSE \A n \in 1..Len(include) :
                              /\ ~IsPlaceholder(include[n])
                              /\ include[n].attr # <<>>

\* an emitted matrix with real entries under one key and placeholders
\* under others
C4_Witness ==
    /\ pc = "done"
    /\ MatrixEmitted
    /\ \E g \in Groups : \E k \in 1..3 :
          Len(GroupOutput(g)[PlatformKeys[k]].include) >= 2
    /\ \E k \in 1..3 : Targets("checks", Platforms[k]) # {}
    /\ \E k \in 1..3 : Targets("packages", Platforms[k]) = {}

(* C5: a unit whose cacheStatus is not notBuilt is no entry of the matrix: *)
(* every real entry carries the attr, name and system of an accepted       *)
(* not-built unit, and no entry carries the name of a cached or local one. *)
C5_OnlyNotBuiltInMatrix ==
    MatrixBuilt =>
        \A p \in EntryPositions :
            ~IsPlaceholder(EntryAt(p)) =>
                /\ \E k \in 1..Len(packages) :
                      /\ packages[k].cacheStatus = "notBuilt"
                      /\ packages[k].attr = EntryAt(p).attr
                      /\ packages[k].name = EntryAt(p).name
                      /\ packages[k].system = EntryAt(p).system
                /\ \A k \in 1..Len(packages) :
                      packages[k].cacheStatus # "notBuilt" =>
                          packages[k].name # EntryAt(p).name

\* an emitted matrix with a real entry, for a batch that also holds a
\* cached unit of the packages group on a supported platform and a local one
C5_Witness ==
    /\ pc = "done"
    /\ MatrixEmitted
    /\ \E k \in 1..Len(packages) :
          /\ packages[k].cacheStatus = "cached"
          /\ StartsWith(packages[k].attr, PACKAGES_DOT)
          /\ packages[k].system = X86_64_LINUX
    /\ \E k \in 1..Len(packages) : packages[k].cacheStatus = "local"
    /\ \E p \in EntryPositions : ~IsPlaceholder(EntryAt(p))

----------------------------------------------------------------------------
NotBuilt(k) == packages[k].cacheStatus = "notBuilt"

HasRunner(k) == \E n \in 1..3 : packages[k].system = Platforms[n]

GroupingOver == pc \notin {"stdout", "stderr", "sort", "group"}

Terminated == pc \in {"done", "aborted"}

\* how many entries of group g carry the name of unit k
EntriesOf(g, k) ==
    Cardinality({p \in EntryPositions :
                    p[1] = g /\ EntryAt(p).name = packages[k].name})

SinkCount(fn, title) ==
    Cardinality({k \in 1..Len(sink) :
                    sink[k].fn = fn /\ sink[k].title = title})

(* C8: when every not-built unit has a supported platform and the sort     *)
(* did not raise, grouping raises nothing and reports nothing, and each    *)
(* not-built unit has one entry in the packages group and none in checks   *)
(* when its first segment is "packages", one in checks and none in         *)
(* packages when it is "checks", and no entry otherwise, whatever the      *)
(* number of segments of its attribute path.                               *)
C8_RoutedByFirstSegment ==
    (/\ GroupingOver
     /\ exception # "CycleError"
     /\ \A k \in 1..Len(packages) : NotBuilt(k) => HasRunner(k))
    => /\ pc # "aborted"
       /\ pc = "output" =>
             \A n \in 1..Len(sink) :
                 sink[n].title \in {"JSON Parse Warning", "Process Failure"}
       /\ MatrixBuilt =>
             \A k \in 1..Len(packages) : NotBuilt(k) =>
                 LET seg == FirstSegment(packages[k].attr)
                 IN  /\ EntriesOf("packages", k) =
                            (IF seg = GroupSegment("packages") THEN 1 ELSE 0)
                     /\ EntriesOf("checks", k) =
                            (IF seg = GroupSegment("checks") THEN 1 ELSE 0)

(* C9 as claimed: a batch holding any unit whose platform has no runner    *)
(* entry never gets past classification and never emits a matrix.          *)
C9_AnyUnitWithoutRunnerAborts ==
    (\E k \in 1..Len(packages) : ~HasRunner(k)) =>
        /\ ~MatrixEmitted
        /\ GroupingOver => pc = "aborted"

(* C9 as amended: a batch holding a not-built unit whose platform has no   *)
(* runner entry ends in an uncaught exception no later than that unit's    *)
(* classification; no matrix is built or emitted, and nothing is added to  *)
(* the collected EvalErrors for it.                                        *)
C9_NotBuiltWithoutRunnerAborts ==
    (\E k \in 1..Len(packages) : NotBuilt(k) /\ ~HasRunner(k)) =>
        /\ ~MatrixBuilt
        /\ ~MatrixEmitted
        /\ GroupingOver =>
              (pc = "aborted" /\ exception # "none" /\ exit_status = 1)
        /\ Len(errors_list) <=
              Cardinality({n \in 1..Len(stdout_data) :
                              stdout_data[n].has_error})

\* the classification of a not-built unit on x86_64-darwin raised ValueError
\* after another unit had been accepted as well
C9_Witness ==
    /\ pc = "aborted"
    /\ exception = "ValueError"
    /\ Len(packages) >= 2
    /\ \E k \in 1..Len(packages) : NotBuilt(k) /\ ~HasRunner(k)

----------------------------------------------------------------------------
DistinctErrorMessages == {errors_list[k].error : k \in 1..Len(errors_list)}

ErrorReports == SinkCount("error", "Nix Evaluation Error")

(* C6 as claimed: a finished run that parsed an EvalError has emitted one  *)
(* error report per distinct message, has exit status 1 and has emitted no *)
(* matrix.                                                                 *)
C6_ErrorsAlwaysReported ==
    (Terminated /\ errors_list # <<>>) =>
        /\ ErrorReports = Cardinality(DistinctErrorMessages)
        /\ exit_status = 1
        /\ ~MatrixEmitted

(* C6 as amended: a run that parsed an EvalError never emits the matrix    *)
(* and ends with exit status 1; when no uncaught exception ends it, one    *)
(* error report per distinct message is in the sink before the exit, and   *)
(* when an uncaught exception ends it, no error report is emitted.         *)
C6_ErrorsFailTheRun ==
    errors_list # <<>> =>
        /\ ~MatrixEmitted
        /\ Terminated => exit_status = 1
        /\ pc \in {"finish", "done"} =>
              ErrorReports = Cardinality(DistinctErrorMessages)
        /\ pc = "aborted" => ErrorReports = 0

\* a run with an EvalError and two accepted units that ran to its end
C6_Witness ==
    /\ pc = "done"
    /\ exit_status = 1
    /\ Len(errors_list) = 1
    /\ Len(packages) = 2
    /\ ErrorReports = 1

(* C7 as claimed: a finished run without EvalErrors has emitted the notice *)
(* and the two outputs and has exit status 0, with one Process Failure     *)
(* report exactly when the return code is not 0.                           *)
C7_NoErrorsAlwaysSucceeds ==
    (Terminated /\ errors_list = <<>>) =>
        /\ exit_status = 0
        /\ SinkCount("notice", "GitHub Actions Matrix") = 1
        /\ SinkCount("set_output", "packages_matrix") = 1
        /\ SinkCount("set_output", "checks_matrix") = 1
        /\ SinkCount("error", "Process Failure") =
              (IF returncode # 0 THEN 1 ELSE 0)

(* C7 as amended: a run without EvalErrors that no uncaught exception ends *)
(* emits the notice and the two outputs and has exit status 0, whatever    *)
(* the warnings and the return code; a run that an uncaught exception ends *)
(* emits no matrix and has exit status 1.  A return code other than 0 adds *)
(* one Process Failure report and nothing else: every stdout line has been *)
(* parsed by then.                                                         *)
C7_OutcomeWithoutErrors ==
    /\ (pc = "done" /\ errors_list = <<>>) =>
          /\ exit_status = 0
          /\ SinkCount("notice", "GitHub Actions Matrix") = 1
          /\ SinkCount("set_output", "packages_matrix") = 1
          /\ SinkCount("set_output", "checks_matrix") = 1
    /\ pc = "aborted" => (exit_status = 1 /\ ~MatrixEmitted)
    /\ pc \notin {"stdout", "stderr"} =>
          /\ SinkCount("error", "Process Failure") =
                (IF returncode # 0 THEN 1 ELSE 0)
          /\ \A k \in 1..Len(stdout_data) :
                (IsUnitRecord(stdout_data[k])
                    /\ ~NixosTestOnX86(stdout_data[k]))
                => stdout_data[k].drvPath \in drv_paths
          /\ Len(errors_list) =
                Cardinality({k \in 1..Len(stdout_data) :
                                stdout_data[k].has_error})

\* a successful run with a warning, a failed evaluator and an accepted unit
C7_Witness ==
    /\ pc = "done"
    /\ exit_status = 0
    /\ MatrixEmitted
    /\ returncode # 0
    /\ warnings_list # <<>>
    /\ packages # <<>>

----------------------------------------------------------------------------
\* the messages of the warning reports made from the accumulated warnings
WarningReportMsgs ==
    LET calls == SelectSeq(sink, LAMBDA c : /\ c.fn = "warning"
                                            /\ c.title = "Nix Evaluation Warning")
    IN  [k \in 1..Len(calls) |-> calls[k].msg]

Occurrences(w) ==
    Cardinality({k \in 1..Len(warnings_list) : warnings_list[k] = w})

ExpectedWarningMsg(w) ==
    IF Occurrences(w) > 1
    THEN w \o <<" ", "(", "o", "c", "c", "u", "r", "r", "e", "d", " ">>
           \o Str(Occurrences(w)) \o <<" ", "t", "i", "m", "e", "s", ")">>
    ELSE w

(* C10: once the warnings are reported there is exactly one warning report *)
(* per distinct accumulated string: the string itself when it occurs once, *)
(* and the string followed by " (occurred n times)", n its number of       *)
(* occurrences, when it occurs more than once.                             *)
C10_OneReportPerWarning ==
    pc \in {"errors", "finish", "done"} =>
        /\ Len(WarningReportMsgs) =
              Cardinality({warnings_list[k] : k \in 1..Len(warnings_list)})
        /\ \A k \in 1..Len(warnings_list) :
              \E r \in 1..Len(WarningReportMsgs) :
                  WarningReportMsgs[r] = ExpectedWarningMsg(warnings_list[k])

\* the warnings A, A, B reported as "A (occurred 2 times)" and "B"
C10_Witness ==
    /\ pc = "done"
    /\ warnings_list = <<<<"A">>, <<"A">>, <<"B">>>>
    /\ WarningReportMsgs =
          << <<"A", " ", "(", "o", "c", "c", "u", "r", "r", "e", "d", " ",
               "2", " ", "t", "i", "m", "e", "s", ")">>,
             <<"B">> >>

----------------------------------------------------------------------------
\* the messages of the error reports made from the collected EvalErrors
ErrorReportMsgs ==
    LET calls == SelectSeq(sink, LAMBDA c : /\ c.fn = "error"
                                            /\ c.title = "Nix Evaluation Error")
    IN  [k \in 1..Len(calls) |-> calls[k].msg]

\* the attrs of the collected errors with message m, in stream order
AttrsWithMessage(m) ==
    LET errs == SelectSeq(errors_list, LAMBDA e : e.error = m)
    IN  [k \in 1..Len(errs) |-> errs[k].attr]

\* the attrs comma-joined after their heading, an empty line, and the
\* message with every newline written as %0A
ExpectedErrorReport(m) ==
    LET attrs == AttrsWithMessage(m)
    IN  (IF Len(attrs) > 1
         THEN <<"A", "f", "f", "e", "c", "t", "e", "d", " ", "a", "t", "t",
                "r", "i", "b", "u", "t", "e", "s", " ", "(">>
              \o Str(Len(attrs)) \o <<")", ":", " ">>
         ELSE <<"A", "t", "t", "r", "i", "b", "u", "t", "e", ":", " ">>)
        \o Join(<<",", " ">>, attrs)
        \o <<"%", "0", "A", "%", "0", "A">>
        \o Replace(m, "\n", <<"%", "0", "A">>)

(* C11: once the errors are reported there is exactly one error report per *)
(* distinct message of the collected EvalErrors; the report of a message   *)
(* lists the attrs of all errors with that message, comma-joined in stream *)
(* order, then the message with each newline replaced by %0A.              *)
C11_OneReportPerMessage ==
    pc \in {"finish", "done"} =>
        /\ Len(ErrorReportMsgs) = Cardinality(DistinctErrorMessages)
        /\ \A m \in DistinctErrorMessages :
              \E r \in 1..Len(ErrorReportMsgs) :
                  ErrorReportMsgs[r] = ExpectedErrorReport(m)

\* three errors, two of them with one message for different attrs and one
\* with a multi-line message, reported in two reports
C11_Witness ==
    /\ pc = "done"
    /\ Len(errors_list) = 3
    /\ Len(ErrorReportMsgs) = 2
    /\ \E m \in DistinctErrorMessages :
          /\ Len(AttrsWithMessage(m)) = 2
          /\ AttrsWithMessage(m)[1] # AttrsWithMessage(m)[2]
    /\ \E m \in DistinctErrorMessages : \E k \in 1..Len(m) : m[k] = "\n"

----------------------------------------------------------------------------
\* the stdout lines that carry an error key, in stream order
ErrorLines == SelectSeq(stdout_data, LAMBDA ln : ln.kind = "json" /\ ln.has_error)

C12_ParseStep ==
    (pc = "stdout" /\ i <= Len(stdout_data)) =>
        /\ i' = i + 1
        /\ pc' = "stdout"
        /\ exit_status' = exit_status
        /\ LET ln == stdout_data[i]
           IN  /\ (ln.kind = "json" /\ ln.has_error) =>
                     /\ Len(errors_list') = Len(errors_list) + 1
                     /\ errors_list'[Len(errors_list')].attr = ln.attr
                     /\ SubSeq(errors_list', 1, Len(errors_list)) = errors_list
                     /\ packages' = packages
                     /\ drv_paths' = drv_paths
               /\ ln.kind = "invalid" =>
                     /\ packages' = packages
                     /\ errors_list' = errors_list
                     /\ drv_paths' = drv_paths
                     /\ Len(sink') = Len(sink) + 1
                     /\ sink'[Len(sink')].fn = "warning"
                     /\ sink'[Len(sink')].title = "JSON Parse Warning"

C12_AllLinesParsed ==
    /\ pc = "stdout" => i <= Len(stdout_data) + 1
    /\ pc # "stdout" =>
          /\ Len(errors_list) = Len(ErrorLines)
          /\ \A k \in 1..Len(errors_list) :
                errors_list[k].attr = ErrorLines[k].attr
          /\ SinkCount("warning", "JSON Parse Warning") =
                Cardinality({k \in 1..Len(stdout_data) :
                                stdout_data[k].kind = "invalid"})
    /\ (pc = "done" /\ ErrorLines = <<>>) => exit_status = 0
    /\ (pc = "done" /\ ErrorLines # <<>>) => exit_status = 1
    /\ exit_status # -1 => Terminated

(* C12: every stdout line is parsed in order whatever came before it: a    *)
(* step on an error record appends its EvalError and leaves the run going  *)
(* with its exit status undecided, a step on an undecodable line sends one *)
(* JSON parse warning and changes neither the unit list, the error list    *)
(* nor the seen set; after the loop every error record of the stream is    *)
(* collected, in order, and a run that reaches its end fails if and only   *)
(* if there was one.                                                       *)
C12_ParsingContinues == []C12_AllLinesParsed /\ [][C12_ParseStep]_vars

\* an error record and an undecodable line were followed by a unit that
\* was accepted
C12_Witness ==
    /\ pc = "stderr"
    /\ Len(stdout_data) = 3
    /\ stdout_data[1].has_error
    /\ stdout_data[2].kind = "invalid"
    /\ Len(packages) = 1
    /\ Len(errors_list) = 1
    /\ SinkCount("warning", "JSON Parse Warning") = 1

----------------------------------------------------------------------------
C13_ParseStep ==
    (pc = "stdout" /\ i <= Len(stdout_data) /\ IsUnitRecord(stdout_data[i])
        /\ stdout_data[i].drvPath \notin drv_paths) =>
        LET ln == stdout_data[i]
        IN  IF /\ "nixos-test" \in ln.requiredSystemFeatures
               /\ ln.system = <<"x", "8", "6", "_", "6", "4", "-",
                                "l", "i", "n", "u", "x">>
            THEN /\ result' = Ok(None)
                 /\ packages' = packages
                 /\ errors_list' = errors_list
                 /\ drv_paths' = drv_paths
                 /\ sink' = sink
            ELSE /\ result' = Ok(Some(ln))
                 /\ packages' = Append(packages, ln)

C13_NeverListed ==
    /\ \A k \in 1..Len(packages) : ~NixosTestOnX86(packages[k])
    /\ \A k \in 1..Len(gh_action_packages) :
          ~NixosTestOnX86(gh_action_packages[k])
    /\ MatrixBuilt =>
          \A p \in EntryPositions :
              ~IsPlaceholder(EntryAt(p)) =>
                  \E k \in 1..Len(packages) :
                      /\ packages[k].attr = EntryAt(p).attr
                      /\ packages[k].name = EntryAt(p).name
                      /\ packages[k].system = EntryAt(p).system

(* C13: a parse step on a unit record with the nixos-test feature on       *)
(* x86_64-linux returns Ok(None) and changes neither the accepted list,    *)
(* the error list, the seen set nor the sink; such a record is never in    *)
(* the accepted list, the sorted list or behind a matrix entry.  A record  *)
(* with the feature on another platform, or on x86_64-linux without it,    *)
(* is accepted when its drvPath is new.                                    *)
C13_NixosTestExcluded == []C13_NeverListed /\ [][C13_ParseStep]_vars

\* a finished run that excluded a nixos-test record on x86_64-linux and
\* whose matrix lists a nixos-test unit on aarch64-linux and an
\* x86_64-linux unit without the feature
C13_Witness ==
    /\ pc = "done"
    /\ MatrixEmitted
    /\ \E k \in 1..Len(stdout_data) : NixosTestOnX86(stdout_data[k])
    /\ \E p \in EntryPositions :
          /\ EntryAt(p).system = AARCH64_LINUX
          /\ \E k \in 1..Len(packages) :
                /\ packages[k].name = EntryAt(p).name
                /\ "nixos-test" \in packages[k].requiredSystemFeatures
    /\ \E k \in 1..Len(packages) :
          /\ packages[k].system = X86_64_LINUX
          /\ packages[k].requiredSystemFeatures = {}

----------------------------------------------------------------------------
ErrorMarker == <<"e", "r", "r", "o", "r", ":">>

\* the message kept for a raw message, given which of its lines count as
\* "error:" lines: the last such line and at most three lines after it,
\* joined again and trimmed; the raw message when there is none
KeptMessage(raw, IsErrorLine(_)) ==
    LET lines == Split(raw, "\n")
        marked == {k \in 1..Len(lines) : IsErrorLine(lines[k])}
    IN  IF marked = {} THEN raw
        ELSE LET last == CHOOSE k \in marked : \A m \in marked : m <= k
                 upto == IF last + 3 <= Len(lines) THEN last + 3
                         ELSE Len(lines)
             IN  Strip(Join(<<"\n">>, SubSeq(lines, last, upto)))

BeginsWithMarker(l) == StartsWith(l, ErrorMarker)

BeginsWithMarkerAfterTrim(l) == StartsWith(Strip(l), ErrorMarker)

ErrorStep(IsErrorLine(_)) ==
    (pc = "stdout" /\ i <= Len(stdout_data) /\ stdout_data[i].kind = "json"
        /\ stdout_data[i].has_error) =>
        /\ result' = Err([attr |-> stdout_data[i].attr,
                          error |-> KeptMessage(stdout_data[i].error,
                                                IsErrorLine)])
        /\ drv_paths' = drv_paths

(* C14 as claimed: the EvalError of an error record holds the last line of *)
(* the raw message that begins with "error:" and at most the three lines   *)
(* after it, trimmed, or the raw message when no line begins with          *)
(* "error:"; the seen set is not touched.                                  *)
C14_LastErrorLine == [][ErrorStep(BeginsWithMarker)]_vars

(* C14 as amended: the same, a line counting as an "error:" line when it   *)
(* begins with "error:" after its surrounding whitespace is trimmed.       *)
C14_LastTrimmedErrorLine == [][ErrorStep(BeginsWithMarkerAfterTrim)]_vars

\* after a unit was accepted, a trace whose indented last "error:" line is
\* followed by four lines was cut to that line and the next three
C14_Witness ==
    /\ pc = "stdout"
    /\ drv_paths # {}
    /\ result.tag = "Err"
    /\ line.error = MSG_TRACE
    /\ result.value[1].error =
          <<"e", "r", "r", "o", "r", ":", " ", "x", "\n", "a", "\n", "b",
            "\n", "c">>

\* the last of two "error:" lines was kept, with the one line after it
C14_WitnessShort ==
    /\ result.tag = "Err"
    /\ line.error = MSG_TWO_ERRORS
    /\ result.value[1].error = <<"e", "r", "r", "o", "r", ":", " ", "b">>

----------------------------------------------------------------------------
\* the position in the sorted list of the unit behind a real entry
SortedPosition(e) ==
    CHOOSE k \in 1..Len(gh_action_packages) :
        gh_action_packages[k].name = e.name

\* the include lists of the matrix as <<group, key>>
IncludeLists ==
    {q \in Groups \X {PlatformKeys[k] : k \in 1..3} :
        q[2] \in DOMAIN GroupOutput(q[1])}

IncludeOf(q) == GroupOutput(q[1])[q[2]].include

IsReal(e) == ~IsPlaceholder(e)

(* C15: in every include list the real entries stand in the order of the   *)
(* sorted unit list, so an entry comes after every entry of the same list  *)
(* whose unit is named in its own unit's neededBuilds or neededSubstitutes.*)
C15_MatrixKeepsSortOrder ==
    MatrixBuilt =>
        \A q \in IncludeLists :
            \A a, b \in 1..Len(IncludeOf(q)) :
                (IsReal(IncludeOf(q)[a]) /\ IsReal(IncludeOf(q)[b])) =>
                    /\ a < b =>
                          SortedPosition(IncludeOf(q)[a])
                              < SortedPosition(IncludeOf(q)[b])
                    /\ (/\ a # b
                        /\ gh_action_packages[SortedPosition(
                               IncludeOf(q)[a])].drvPath
                           \in Needed(gh_action_packages[SortedPosition(
                                          IncludeOf(q)[b])]))
                       => a < b

\* X, Y needing X and Z needing Y, not-built packages on x86_64-linux that
\* arrived as Z, Y, X, are the three entries X, Y, Z of that platform
C15_Witness ==
    /\ pc = "done"
    /\ MatrixEmitted
    /\ Len(packages) = 3
    /\ packages[1].drvPath = "d3" /\ packages[1].neededBuilds = {"d2"}
    /\ packages[2].drvPath = "d2" /\ packages[2].neededBuilds = {"d1"}
    /\ packages[3].drvPath = "d1"
    /\ LET include == packages_output[PlatformKeys[1]].include
       IN  /\ Len(include) = 3
           /\ include[1].name = "n1"
           /\ include[2].name = "n2"
           /\ include[3].name = "n3"

----------------------------------------------------------------------------
\* what follows the last underscore of a segment (all of it when it has
\* no underscore)
AfterLastUnderscore(seg) ==
    LET at == {k \in 1..Len(seg) : seg[k] = "_"}
    IN  IF at = {} THEN seg
        ELSE SubSeq(seg, (CHOOSE k \in at : \A m \in at : m <= k) + 1,
                    Len(seg))

RunnerLabels(sys) ==
    IF sys = Platforms[1] THEN <<"blacksmith-8vcpu-ubuntu-2404">>
    ELSE IF sys = Platforms[2] THEN <<"blacksmith-8vcpu-ubuntu-2404-arm">>
    ELSE <<"macos-latest">>

ExpectedVersion(attr) ==
    LET segs == Split(attr, ".")
    IN  IF Len(segs) >= 2 /\ segs[Len(segs) - 1] = <<"e", "x", "t", "s">>
        THEN <<AfterLastUnderscore(segs[Len(segs) - 2])>>
        ELSE <<>>

(* C16: a real matrix entry carries a version exactly when the             *)
(* second-to-last segment of its attr is "exts", and the version is then   *)
(* what follows the last underscore of the segment three from the end; its *)
(* attr, name, system and runner are those of its unit either way.         *)
C16_VersionOfExtensions ==
    MatrixBuilt =>
        \A p \in EntryPositions :
            IsReal(EntryAt(p)) =>
                /\ EntryAt(p).postgresql_version
                       = ExpectedVersion(EntryAt(p).attr)
                /\ EntryAt(p).runs_on
                       = [labels |-> RunnerLabels(EntryAt(p).system)]
                /\ \E k \in 1..Len(packages) :
                      /\ packages[k].attr = EntryAt(p).attr
                      /\ packages[k].name = EntryAt(p).name
                      /\ packages[k].system = EntryAt(p).system

\* packages.x86_64-linux.postgresql_15.exts.foo is listed with version 15
\* next to entries whose attr ends in "exts" or has no such segment and
\* that carry no version
C16_Witness ==
    /\ pc = "done"
    /\ MatrixEmitted
    /\ \E p \in EntryPositions :
          /\ EntryAt(p).attr = ATTR_EXT_PG
          /\ EntryAt(p).postgresql_version = << <<"1", "5">> >>
    /\ \E p \in EntryPositions :
          /\ EntryAt(p).attr = ATTR_EXTS_LAST
          /\ EntryAt(p).postgresql_version = <<>>
    /\ \E p \in EntryPositions :
          /\ EntryAt(p).attr = ATTR_NOT_QUITE_EXTS
          /\ EntryAt(p).postgresql_version = <<>>

----------------------------------------------------------------------------
WarningMarker == <<"w", "a", "r", "n", "i", "n", "g", ":">>

EvaluationWarningMarker ==
    <<"e", "v", "a", "l", "u", "a", "t", "i", "o", "n", " ",
      "w", "a", "r", "n", "i", "n", "g", ":">>

\* the warning strings a diagnostic line adds: the trimmed line without
\* its marker, trimmed again, when it starts with a marker; none otherwise
WarningsOfLine(l) ==
    LET t == Strip(l)
    IN  IF StartsWith(t, WarningMarker)
        THEN <<Strip(SubSeq(t, Len(WarningMarker) + 1, Len(t)))>>
        ELSE IF StartsWith(t, EvaluationWarningMarker)
        THEN <<Strip(SubSeq(t, Len(EvaluationWarningMarker) + 1, Len(t)))>>
        ELSE <<>>

RECURSIVE WarningsOfLines(_)
WarningsOfLines(ls) ==
    IF ls = <<>> THEN <<>>
    ELSE WarningsOfLine(Head(ls)) \o WarningsOfLines(Tail(ls))

(* C17: the accumulated warnings are, line by line of the diagnostic       *)
(* channel, the text of each line that starts with "warning:" or           *)
(* "evaluation warning:" with that marker removed and trimmed, and nothing *)
(* for any other line, whatever was parsed from standard output.           *)
C17_WarningsWithoutMarker ==
    /\ pc = "stderr" =>
          warnings_list = WarningsOfLines(SubSeq(stderr_data, 1, i - 1))
    /\ pc \notin {"stdout", "stderr"} =>
          warnings_list = WarningsOfLines(stderr_data)

----------------------------------------------------------------------------
\* the units of the batch that unit k needs or that need unit k
Neighbours(jobs, k) ==
    {m \in 1..Len(jobs) :
        /\ m # k
        /\ \/ jobs[m].drvPath \in Needed(jobs[k])
           \/ jobs[k].drvPath \in Needed(jobs[m])}

Dependents(jobs, k) ==
    {m \in 1..Len(jobs) : m # k /\ jobs[k].drvPath \in Needed(jobs[m])}

(* C18: for a batch with pairwise distinct drvPaths and an acyclic         *)
(* restricted graph the output of sort_pkgs_by_closures is a permutation   *)
(* of its input: as many units as the input, each input unit at exactly    *)
(* one position, isolated units and units nothing depends on included.     *)
C18_SortIsPermutation ==
    (/\ SortReturnedOrRaised
     /\ ~HasCycle(packages)
     /\ \A a, b \in 1..Len(packages) :
           packages[a].drvPath = packages[b].drvPath => a = b)
    => /\ Len(gh_action_packages) = Len(packages)
       /\ \A k \in 1..Len(packages) :
             Cardinality({j \in 1..Len(gh_action_packages) :
                             gh_action_packages[j] = packages[k]}) = 1

\* a reordered batch of three with an isolated unit and a unit that has a
\* predecessor in the batch and no dependent
C18_Witness ==
    /\ pc = "group"
    /\ Len(packages) = 3
    /\ gh_action_packages # packages
    /\ \E k \in 1..3 : Neighbours(packages, k) = {}
    /\ \E k \in 1..3 : /\ Neighbours(packages, k) # {}
                       /\ Dependents(packages, k) = {}

----------------------------------------------------------------------------
\* the runner table, platform by platform
RunnerTable ==
    <<<<"blacksmith-8vcpu-ubuntu-2404">>,
      <<"blacksmith-8vcpu-ubuntu-2404-arm">>,
      <<"macos-latest">>>>

\* how many entries of the whole matrix carry the name of unit k
EntriesInMatrix(k) ==
    Cardinality({p \in EntryPositions :
                    IsReal(EntryAt(p)) /\ EntryAt(p).name = packages[k].name})

(* C19: every real matrix entry is listed under the key of its own         *)
(* platform (hyphens replaced by underscores) and carries exactly the      *)
(* runner labels the runner table gives for that platform, and each        *)
(* accepted not-built unit occurs at most once in the whole matrix, both   *)
(* groups and all platforms together.                                      *)
C19_EntriesUnderOwnPlatform ==
    MatrixBuilt =>
        /\ \A p \in EntryPositions :
              IsReal(EntryAt(p)) =>
                  \E n \in 1..3 :
                      /\ EntryAt(p).system = Platforms[n]
                      /\ p[2] = PlatformKeys[n]
                      /\ EntryAt(p).runs_on = [labels |-> RunnerTable[n]]
        /\ \A k \in 1..Len(packages) :
              NotBuilt(k) => EntriesInMatrix(k) <= 1

\* a matrix with real entries under two platform keys, one in each group,
\* built from a batch that also holds a not-built unit listed nowhere
C19_Witness ==
    /\ pc = "done"
    /\ MatrixEmitted
    /\ \E p, q \in EntryPositions :
          /\ IsReal(EntryAt(p)) /\ IsReal(EntryAt(q))
          /\ p[1] = "packages" /\ q[1] = "checks"
          /\ p[2] # q[2]
    /\ \E k \in 1..Len(packages) : NotBuilt(k) /\ EntriesInMatrix(k) = 0

----------------------------------------------------------------------------
\* the steps of a run of package-go.py that come before the final write
BeforeFinalWrite == {"start", "inputs", "validate", "prefetch", "vendor",
                     "confirm"}

RealVendorHash == vendor_hash # None /\ vendor_hash[1] # FAKE_HASH

\* a step that is not the final write leaves the config file as it was
C20_Step == go_pc \in BeforeFinalWrite => config_file' = config_file

\* after a run that computed a real vendor hash the file does not hold
\* the fake one
C20_NoFakeHashLeft ==
    (go_pc = "done" /\ RealVendorHash /\ config_file # None)
        => config_file[1].vendorHash # FAKE_HASH

(* C20: in a run of package-go.py the config file is changed only by the   *)
(* step that writes the final config after the confirmation, so a run that *)
(* ends before that step (answer n or no, failed ref validation, prefetch  *)
(* or vendor-hash computation) leaves the file as it was before the run,   *)
(* and after a run that computed a real vendor hash the file never holds   *)
(* the placeholder fake vendor hash.                                       *)
C20_ConfigChangedOnlyByFinalWrite ==
    [][C20_Step]_vars /\ []C20_NoFakeHashLeft

====
